---- MODULE Spec2Model ----
(***************************************************************************)
(* A model of the sv6 on-disk file-system core (kernel/fs.cc, scalefs.hh): *)
(* the inode cache with its busy/readbusy latch, reference counts and      *)
(* RCU-delayed destruction, the inode allocator, and the transaction       *)
(* journal.                                                                *)
(***************************************************************************)
EXTENDS Integers, Sequences, FiniteSets, TLC

\* ---------------------------------------------------------------- bounds
NThreads == 2     \* kernel threads (one per CPU)
NInodes == 3      \* sb_root.ninodes: inums 0..NInodes-1
MaxObjs == 2      \* in-memory inode objects ever constructed
MaxNlink == 1     \* largest link count reached
MaxTrans == 2     \* transactions ever created
NBlocks == 2      \* disk blocks a transaction may log
MaxClock == 3     \* block writes made through the buffer cache
NDIRECT == 1      \* direct block slots of an inode (scaled down)
NINDIRECT == 2    \* block numbers per indirect block (scaled down)
BSIZE == 2        \* bytes per block (scaled down)
MaxOps == 3       \* file operations in one run
DIRSIZ == 2       \* bytes of a name in a directory entry (scaled down)
MaxPath == 6      \* characters of a path
LogBPB == 4       \* a bitmap block holds 2 ^ LogBPB bits
MaxList == 3      \* blocks in one batch of bitmap updates

\* ------------------------------------------------------ program constants
T_FREE == 0
T_DIR == 1
T_FILE == 2
T_DEV == 3
WRITELOCK == "W"
READLOCK == "R"

Threads == 1..NThreads
AllInums == 0..(NInodes - 1)
Inums == 1..(NInodes - 1)
Objs == 1..MaxObjs
NoObj == 0

VARIABLES
  ins,        \* the inode hash table: inum -> object (NoObj when absent)
  inodes,     \* the in-memory inode objects
  gcwait,     \* per object handed to gc_delayed: readers it still waits for
  dinode,     \* the on-disk inode table
  thr,        \* each thread's position and locals
  panic,      \* "none", or the panic() that halted the kernel
  uaf,        \* a thread dereferenced a deleted inode
  disk,       \* block number -> version of the content on the disk
  cache,      \* block number -> version of the content in the buffer cache
  dirty,      \* block number -> the buffer is dirty
  trans,      \* the transactions
  journal,    \* journal::transaction_log
  flush,      \* position of the thread inside flush_to_disk
  clock,      \* versions handed out to block writes
  fs,         \* one file's inode, its blocks, the free bitmap, its transaction
  fres,       \* the last file operation: its arguments, result, state before
  dp,         \* one directory: its index, dir_offset, size, entries, link counts
  dres,       \* the last directory operation: arguments, result, state before
  nx,         \* the last path lookup: the path, the lookups made, the result
  bm,         \* the on-disk free bitmap and the last batch of updates to it
  di          \* threads looking names up in a directory whose index is being built

cacheVars == <<ins, inodes, gcwait, dinode, thr, panic, uaf>>
journalVars == <<disk, cache, dirty, trans, journal, flush, clock>>
fileVars == <<fs, fres>>
dirVars == <<dp, dres, nx>>
auxVars == <<bm, di>>
vars == <<ins, inodes, gcwait, dinode, thr, panic, uaf,
          disk, cache, dirty, trans, journal, flush, clock, fs, fres,
          dp, dres, nx, bm, di>>

Running == panic = "none" /\ ~uaf

\* ------------------------------------------------------------- inode objects

\* inode::inode: valid(false), busy(false), readbusy(0); a `referenced`
\* object starts with one reference, owned by the sref it is transferred to.
NewInode(i) ==
  [st |-> "live", inum |-> i, valid |-> FALSE, busy |-> FALSE, readbusy |-> 0,
   ref |-> 1, nlink_ |-> 0, type |-> T_FREE, size |-> 0, addrs0 |-> 0,
   gen |-> 0, extra |-> FALSE]

Unused ==
  [st |-> "unused", inum |-> 0, valid |-> FALSE, busy |-> FALSE, readbusy |-> 0,
   ref |-> 0, nlink_ |-> 0, type |-> T_FREE, size |-> 0, addrs0 |-> 0,
   gen |-> 0, extra |-> FALSE]

IdleThread(last) ==
  [pc |-> "idle", ip |-> NoObj, iptr |-> NoObj, inum |-> 0, mode |-> "none",
   held |-> "none", epoch |-> FALSE, cont |-> "idle", this |-> NoObj,
   zcont |-> "idle", ret |-> -1, last_inode |-> last, alast |-> last, ainum |-> 0,
   atype |-> T_FREE, all_scanned |-> FALSE, scanned |-> <<>>]

Freed(o) == o # NoObj /\ inodes[o].st = "freed"

\* condvar::wake_all on ip->cv: every sleeper re-takes the spinlock and
\* re-evaluates its while condition.
WakeAll(th, o) ==
  [u \in Threads |->
     IF th[u].ip = o /\ th[u].pc = "ilock_sleep" THEN [th[u] EXCEPT !.pc = "ilock"]
     ELSE IF th[u].ip = o /\ th[u].pc = "iget_sleep" THEN [th[u] EXCEPT !.pc = "iget_wait"]
     ELSE th[u]]

\* A faulty wait: writers do not wait for the readers to leave.
IlockBlocked_NoReaderCheck(ino, lock_type) == ino.busy

\* The while condition of ilock: a writer sleeps while busy || readbusy,
\* a reader while busy.
IlockBlocked(ino, lock_type) ==
  IF lock_type = WRITELOCK THEN ino.busy \/ ino.readbusy # 0 ELSE ino.busy

\* The assignments of ilock once the wait is over.
IlockTake(ino, lock_type) ==
  [ino EXCEPT !.busy = IF lock_type = WRITELOCK THEN TRUE ELSE @,
              !.readbusy = @ + 1]

\* The assignments of iunlock under ip->lock.
IunlockRelease(ino) == [ino EXCEPT !.readbusy = @ - 1, !.busy = FALSE]

\* ------------------------------------------------------------- references

\* sref<inode>::~sref -> referenced::dec(): the thread goes on at `next`, after
\* running onzero() first when this was the last reference.
AfterDec(th, o, next) ==
  IF inodes[o].ref - 1 = 0
  THEN [th EXCEPT !.pc = "onzero", !.this = o, !.zcont = next]
  ELSE [th EXCEPT !.pc = next]

\* The checks and assignments of inode::onzero under its spinlock.
OnzeroPanic(ino) ==
  IF ino.busy \/ ino.readbusy # 0 THEN "onzero: inode is busy"
  ELSE IF ~ino.valid THEN "onzero: valid flag is false"
  ELSE "none"

\* inode::onzero, first half: panic on a latched or never-validated inode,
\* otherwise latch it for good.
OnZero(t) ==
  LET o == thr[t].this IN
  /\ Running /\ thr[t].pc = "onzero"
  /\ IF OnzeroPanic(inodes[o]) # "none"
     THEN /\ panic' = OnzeroPanic(inodes[o])
          /\ UNCHANGED <<inodes, thr>>
     ELSE /\ inodes' = [inodes EXCEPT ![o].busy = TRUE, ![o].readbusy = @ + 1]
          /\ thr' = [thr EXCEPT ![t].pc = "onzero_remove"]
          /\ UNCHANGED panic
  /\ UNCHANGED <<ins, gcwait, dinode, uaf, journalVars, fileVars, dirVars, auxVars>>

\* chainhash::remove(key): whatever object the key maps to leaves the table.
HashRemove(h, i) == [h EXCEPT ![i] = NoObj]

\* gc_delayed(this): the object is deleted once every thread that is inside a
\* scoped_gc_epoch now has left it.
GcDelayed(o) == {u \in Threads : thr[u].epoch}

\* inode::onzero, second half: ins->remove(make_pair(dev, inum)); gc_delayed(this).
OnZeroRemove(t) ==
  LET o == thr[t].this IN
  /\ Running /\ thr[t].pc = "onzero_remove"
  /\ ins' = HashRemove(ins, inodes[o].inum)
  /\ inodes' = [inodes EXCEPT ![o].st = "delayed"]
  /\ gcwait' = [gcwait EXCEPT ![o] = GcDelayed(o)]
  /\ thr' = [thr EXCEPT ![t].pc = thr[t].zcont, ![t].this = NoObj]
  /\ UNCHANGED <<dinode, panic, uaf, journalVars, fileVars, dirVars, auxVars>>

\* inode::do_gc: delete this, run by the collector after the grace period.
DoGc(o) ==
  /\ Running /\ inodes[o].st = "delayed" /\ gcwait[o] = {}
  /\ inodes' = [inodes EXCEPT ![o].st = "freed"]
  /\ UNCHANGED <<ins, gcwait, dinode, thr, panic, uaf, journalVars, fileVars, dirVars, auxVars>>

\* ~scoped_gc_epoch: the thread leaves its reader section.
ExitEpoch(t) ==
  /\ Running /\ thr[t].pc = "idle" /\ thr[t].epoch
  /\ thr' = [thr EXCEPT ![t].epoch = FALSE]
  /\ gcwait' = [o \in Objs |-> gcwait[o] \ {t}]
  /\ UNCHANGED <<ins, inodes, dinode, panic, uaf, journalVars, fileVars, dirVars, auxVars>>

\* A thread uses an sref whose inode has been deleted.
UseAfterFree(t) ==
  /\ Running /\ thr[t].pc = "idle" /\ Freed(thr[t].ip)
  /\ uaf' = TRUE
  /\ UNCHANGED <<ins, inodes, gcwait, dinode, thr, panic, journalVars, fileVars, dirVars, auxVars>>

\* ------------------------------------------------------------------- iget

\* A caller, inside its scoped_gc_epoch, calls iget(dev, i).
CallIget(t, i) ==
  /\ Running /\ thr[t].pc = "idle" /\ thr[t].ip = NoObj
  /\ thr' = [thr EXCEPT ![t].pc = "iget_lookup", ![t].inum = i,
                        ![t].epoch = TRUE, ![t].cont = "idle"]
  /\ UNCHANGED <<ins, inodes, gcwait, dinode, panic, uaf, journalVars, fileVars, dirVars, auxVars>>

\* retry: ins->lookup(make_pair(dev, inum), &iptr)
IgetLookup(t) ==
  /\ Running /\ thr[t].pc = "iget_lookup"
  /\ thr' = IF ins[thr[t].inum] # NoObj
            THEN [thr EXCEPT ![t].pc = "iget_newref", ![t].iptr = ins[thr[t].inum]]
            ELSE [thr EXCEPT ![t].pc = "iget_alloc"]
  /\ UNCHANGED <<ins, inodes, gcwait, dinode, panic, uaf, journalVars, fileVars, dirVars, auxVars>>

\* A faulty iget: the cached inode is returned without the wait for valid.
IgetAfterNewref_NoWait(ino, cont) == cont

\* Where iget goes after taking its reference to a cached inode.
IgetAfterNewref(ino, cont) == IF ino.valid THEN cont ELSE "iget_wait"

\* ip = sref<inode>::newref(iptr); if (!ip->valid.load()) ...
IgetNewref(t) ==
  LET o == thr[t].iptr IN
  /\ Running /\ thr[t].pc = "iget_newref"
  /\ IF Freed(o)
     THEN uaf' = TRUE /\ UNCHANGED <<inodes, thr>>
     ELSE /\ inodes' = [inodes EXCEPT ![o].ref = @ + 1]
          /\ thr' = [thr EXCEPT ![t].ip = o, ![t].iptr = NoObj,
                                ![t].pc = IgetAfterNewref(inodes[o], thr[t].cont)]
          /\ UNCHANGED uaf
  /\ UNCHANGED <<ins, gcwait, dinode, panic, journalVars, fileVars, dirVars, auxVars>>

\* acquire(&ip->lock); while (!ip->valid) ip->cv.sleep(&ip->lock); release
IgetWait(t) ==
  /\ Running /\ thr[t].pc = "iget_wait"
  /\ thr' = [thr EXCEPT ![t].pc = IF inodes[thr[t].ip].valid THEN thr[t].cont
                                  ELSE "iget_sleep"]
  /\ UNCHANGED <<ins, inodes, gcwait, dinode, panic, uaf, journalVars, fileVars, dirVars, auxVars>>

FreeObjs == {o \in Objs : inodes[o].st = "unused"}

\* ip = inode::alloc(dev, inum); ip->busy = true; ip->readbusy = 1;
IgetAlloc(t) ==
  /\ Running /\ thr[t].pc = "iget_alloc" /\ FreeObjs # {}
  /\ LET o == CHOOSE x \in FreeObjs : \A y \in FreeObjs : x <= y IN
       /\ inodes' = [inodes EXCEPT ![o] = [NewInode(thr[t].inum) EXCEPT
                                             !.busy = TRUE, !.readbusy = 1]]
       /\ thr' = [thr EXCEPT ![t].pc = "iget_insert", ![t].ip = o]
  /\ UNCHANGED <<ins, gcwait, dinode, panic, uaf, journalVars, fileVars, dirVars, auxVars>>

\* chainhash::insert(key, value): fails when the key is present.
HashInsertOk(h, i) == h[i] = NoObj

\* if (!ins->insert(make_pair(ip->dev, ip->inum), ip.get())) ...
IgetInsert(t) ==
  /\ Running /\ thr[t].pc = "iget_insert"
  /\ IF HashInsertOk(ins, thr[t].inum)
     THEN /\ ins' = [ins EXCEPT ![thr[t].inum] = thr[t].ip]
          /\ thr' = [thr EXCEPT ![t].pc = "iget_init"]
     ELSE /\ thr' = [thr EXCEPT ![t].pc = "iget_lose"]
          /\ UNCHANGED ins
  /\ UNCHANGED <<inodes, gcwait, dinode, panic, uaf, journalVars, fileVars, dirVars, auxVars>>

\* The insert was lost: iunlock(ip); goto retry, which destroys the sref ip.
IgetLose(t) ==
  LET o == thr[t].ip IN
  /\ Running /\ thr[t].pc = "iget_lose"
  /\ inodes' = [inodes EXCEPT ![o] = [IunlockRelease(@) EXCEPT !.ref = @ - 1]]
  /\ thr' = [WakeAll(thr, o) EXCEPT
               ![t] = [AfterDec(thr[t], o, "iget_lookup") EXCEPT !.ip = NoObj]]
  /\ UNCHANGED <<ins, gcwait, dinode, panic, uaf, journalVars, fileVars, dirVars, auxVars>>

\* A faulty init: only the link count's reference is taken.
InitRefs_NoExtra(nlink) == IF nlink > 0 THEN 1 ELSE 0

\* The references inode::init takes: one while nlink_ > 0, and one more that
\* mfs_interface::free_inode gives back.
InitRefs(nlink) == (IF nlink > 0 THEN 1 ELSE 0) + 1

\* inode::init: copy the disk inode, take the references, valid.store(true).
InodeInit(ino, dip) ==
  [ino EXCEPT !.type = dip.type, !.nlink_ = dip.nlink, !.size = dip.size,
              !.addrs0 = dip.addrs0, !.gen = dip.gen,
              !.ref = @ + InitRefs(dip.nlink), !.extra = TRUE, !.valid = TRUE]

\* ip->init() of the thread that won the insert.
IgetInit(t) ==
  LET o == thr[t].ip IN
  /\ Running /\ thr[t].pc = "iget_init"
  /\ inodes' = [inodes EXCEPT ![o] = InodeInit(@, dinode[thr[t].inum])]
  /\ thr' = [thr EXCEPT ![t].pc = "iget_unlock"]
  /\ UNCHANGED <<ins, gcwait, dinode, panic, uaf, journalVars, fileVars, dirVars, auxVars>>

\* iunlock(ip); return ip;
IgetUnlock(t) ==
  LET o == thr[t].ip IN
  /\ Running /\ thr[t].pc = "iget_unlock"
  /\ inodes' = [inodes EXCEPT ![o] = IunlockRelease(@)]
  /\ thr' = [WakeAll(thr, o) EXCEPT ![t] = [thr[t] EXCEPT !.pc = thr[t].cont]]
  /\ UNCHANGED <<ins, gcwait, dinode, panic, uaf, journalVars, fileVars, dirVars, auxVars>>

\* ------------------------------------------------------------ ilock, iunlock

\* A thread that holds a reference calls ilock(ip, lock_type).
CallIlock(t, lock_type) ==
  /\ Running /\ thr[t].pc = "idle" /\ thr[t].ip # NoObj /\ ~Freed(thr[t].ip)
  /\ thr[t].held = "none"
  /\ thr' = [thr EXCEPT ![t].pc = "ilock", ![t].mode = lock_type, ![t].cont = "idle"]
  /\ UNCHANGED <<ins, inodes, gcwait, dinode, panic, uaf, journalVars, fileVars, dirVars, auxVars>>

\* ilock under ip->lock: sleep on cv while the latch is taken, else take it;
\* then panic if the inode is not valid.
Ilock(t) ==
  LET o == thr[t].ip IN
  /\ Running /\ thr[t].pc = "ilock"
  /\ IF IlockBlocked(inodes[o], thr[t].mode)
     THEN /\ thr' = [thr EXCEPT ![t].pc = "ilock_sleep"]
          /\ UNCHANGED <<inodes, panic>>
     ELSE /\ inodes' = [inodes EXCEPT ![o] = IlockTake(@, thr[t].mode)]
          /\ IF inodes[o].valid
             THEN /\ thr' = [thr EXCEPT ![t].pc = thr[t].cont,
                                        ![t].held = thr[t].mode]
                  /\ UNCHANGED panic
             ELSE /\ panic' = "ilock: valid flag is false"
                  /\ UNCHANGED thr
  /\ UNCHANGED <<ins, gcwait, dinode, uaf, journalVars, fileVars, dirVars, auxVars>>

\* iunlock(ip) by a thread that holds the latch.
Iunlock(t) ==
  LET o == thr[t].ip IN
  /\ Running /\ thr[t].pc = "idle" /\ thr[t].held # "none" /\ ~Freed(o)
  /\ IF inodes[o].readbusy = 0 /\ ~inodes[o].busy
     THEN /\ panic' = "iunlock: inode not locked"
          /\ UNCHANGED <<inodes, thr>>
     ELSE /\ inodes' = [inodes EXCEPT ![o] = IunlockRelease(@)]
          /\ thr' = [WakeAll(thr, o) EXCEPT ![t] = [thr[t] EXCEPT !.held = "none"]]
          /\ UNCHANGED panic
  /\ UNCHANGED <<ins, gcwait, dinode, uaf, journalVars, fileVars, dirVars, auxVars>>

\* ------------------------------------------------------ link, unlink, close

\* A faulty link: every link takes a reference.
InodeLink_AlwaysInc(ino) == [ino EXCEPT !.nlink_ = @ + 1, !.ref = @ + 1]

\* inode::link: if (++nlink_ == 1) inc();
InodeLink(ino) ==
  [ino EXCEPT !.nlink_ = @ + 1, !.ref = IF ino.nlink_ + 1 = 1 THEN @ + 1 ELSE @]

\* Whether inode::unlink drops the link count's reference: --nlink_ == 0.
UnlinkDrops(ino) == ino.nlink_ - 1 = 0

\* inode::link by a thread that holds the write latch.
Link(t) ==
  LET o == thr[t].ip IN
  /\ Running /\ thr[t].pc = "idle" /\ thr[t].held = WRITELOCK /\ ~Freed(o)
  /\ inodes[o].nlink_ < MaxNlink
  /\ inodes' = [inodes EXCEPT ![o] = InodeLink(@)]
  /\ UNCHANGED <<ins, gcwait, dinode, thr, panic, uaf, journalVars, fileVars, dirVars, auxVars>>

\* inode::unlink by a thread that holds the write latch.
Unlink(t) ==
  LET o == thr[t].ip IN
  /\ Running /\ thr[t].pc = "idle" /\ thr[t].held = WRITELOCK /\ ~Freed(o)
  /\ inodes[o].nlink_ > -MaxNlink
  /\ IF UnlinkDrops(inodes[o])
     THEN /\ inodes' = [inodes EXCEPT ![o].nlink_ = @ - 1, ![o].ref = @ - 1]
          /\ thr' = [thr EXCEPT ![t] = AfterDec(@, o, "idle")]
     ELSE /\ inodes' = [inodes EXCEPT ![o].nlink_ = @ - 1]
          /\ UNCHANGED thr
  /\ UNCHANGED <<ins, gcwait, dinode, panic, uaf, journalVars, fileVars, dirVars, auxVars>>

\* mfs_interface::free_inode: the file is unlinked and closed, MemFS gives back
\* the reference inode::init took for it.
FreeInode(t) ==
  LET o == thr[t].ip IN
  /\ Running /\ thr[t].pc = "idle" /\ o # NoObj /\ ~Freed(o)
  /\ thr[t].held = "none" /\ inodes[o].extra /\ inodes[o].nlink_ = 0
  /\ inodes' = [inodes EXCEPT ![o].extra = FALSE, ![o].ref = @ - 1]
  /\ thr' = [thr EXCEPT ![t] = AfterDec(@, o, "idle")]
  /\ UNCHANGED <<ins, gcwait, dinode, panic, uaf, journalVars, fileVars, dirVars, auxVars>>

\* The caller lets go of its sref<inode>.
Drop(t) ==
  LET o == thr[t].ip IN
  /\ Running /\ thr[t].pc = "idle" /\ o # NoObj /\ ~Freed(o)
  /\ thr[t].held = "none"
  /\ inodes' = [inodes EXCEPT ![o].ref = @ - 1]
  /\ thr' = [thr EXCEPT ![t] = [AfterDec(@, o, "idle") EXCEPT !.ip = NoObj]]
  /\ UNCHANGED <<ins, gcwait, dinode, panic, uaf, journalVars, fileVars, dirVars, auxVars>>

\* ------------------------------------------------------------------ readi

\* u32 arithmetic wraps; the model scales the 32 bits down to 4.
U32 == 2 ^ 4

\* What readi returns: -1 for a device inode, a start past the end or an
\* overflowing off + n, else the byte count clipped to the file size.
ReadiRet(ino, off, n) ==
  IF ino.type = T_DEV THEN -1
  ELSE IF off > ino.size \/ (off + n) % U32 < off THEN -1
  ELSE IF off + n > ino.size THEN ino.size - off
  ELSE n

\* readi(ip, dst, off, n) by a thread that holds a reference (no latch needed).
Readi(t, off, n) ==
  LET o == thr[t].ip IN
  /\ Running /\ thr[t].pc = "idle" /\ o # NoObj /\ ~Freed(o)
  /\ thr' = [thr EXCEPT ![t].ret = ReadiRet(inodes[o], off, n)]
  /\ UNCHANGED <<ins, inodes, gcwait, dinode, panic, uaf, journalVars, fileVars, dirVars, auxVars>>

\* ----------------------------------------------------------------- ialloc

\* A faulty start: the scan begins at last_inode itself.
IallocStart_NoAdvance(last) == last % NInodes

\* ialloc(dev, type): scoped_gc_epoch e; inum = (last_inode[myid()] + 1) % ninodes
IallocStart(last) == (last + 1) % NInodes

CallIalloc(t, type) ==
  /\ Running /\ thr[t].pc = "idle" /\ thr[t].ip = NoObj /\ ~thr[t].epoch
  /\ thr' = [thr EXCEPT ![t].pc = "ialloc_loop", ![t].epoch = TRUE,
                        ![t].ainum = IallocStart(thr[t].last_inode),
                        ![t].alast = thr[t].last_inode,
                        ![t].atype = type, ![t].all_scanned = FALSE,
                        ![t].scanned = <<>>, ![t].ret = -1]
  /\ UNCHANGED <<ins, inodes, gcwait, dinode, panic, uaf, journalVars, fileVars, dirVars, auxVars>>

\* The loop head of ialloc: leave when inum reached ninodes, skip inum 0,
\* otherwise try_ialloc(inum, dev, type), which starts with iget(dev, inum).
IallocLoop(t) ==
  /\ Running /\ thr[t].pc = "ialloc_loop"
  /\ thr' = IF thr[t].ainum >= NInodes
            THEN [thr EXCEPT ![t].pc = "ialloc_ret", ![t].ret = -1]
            ELSE IF thr[t].ainum = 0
            THEN [thr EXCEPT ![t].ainum = 1]
            ELSE [thr EXCEPT ![t].pc = "iget_lookup",
                             ![t].inum = thr[t].ainum,
                             ![t].cont = "try_ialloc",
                             ![t].scanned = Append(@, thr[t].ainum)]
  /\ UNCHANGED <<ins, inodes, gcwait, dinode, panic, uaf, journalVars, fileVars, dirVars, auxVars>>

\* try_ialloc after iget: if (ip->type || !cmpxch(&ip->type, 0, type)) return
\* an empty reference (dropping ip); else go on to ilock(ip, WRITELOCK).
CmpxchOk(ino) == ino.type = T_FREE

TryIalloc(t) ==
  LET o == thr[t].ip IN
  /\ Running /\ thr[t].pc = "try_ialloc"
  /\ IF CmpxchOk(inodes[o])
     THEN /\ inodes' = [inodes EXCEPT ![o].type = thr[t].atype]
          /\ thr' = [thr EXCEPT ![t].pc = "ilock", ![t].mode = WRITELOCK,
                                ![t].cont = "try_ialloc_locked"]
     ELSE /\ inodes' = [inodes EXCEPT ![o].ref = @ - 1]
          /\ thr' = [thr EXCEPT ![t] = [AfterDec(@, o, "ialloc_next")
                                          EXCEPT !.ip = NoObj]]
  /\ UNCHANGED <<ins, gcwait, dinode, panic, uaf, journalVars, fileVars, dirVars, auxVars>>

\* try_ialloc with the write latch: ip->gen += 1, panic unless the inode is
\* zeroed; ialloc then records last_inode[myid()] = inum and returns ip.
TryIallocLocked(t) ==
  LET o == thr[t].ip IN
  /\ Running /\ thr[t].pc = "try_ialloc_locked"
  /\ IF inodes[o].nlink_ # 0 \/ inodes[o].size # 0 \/ inodes[o].addrs0 # 0
     THEN /\ panic' = "try_ialloc: inode not zeroed"
          /\ UNCHANGED <<inodes, thr>>
     ELSE /\ inodes' = [inodes EXCEPT ![o].gen = @ + 1]
          /\ thr' = [thr EXCEPT ![t].pc = "ialloc_ret", ![t].ret = thr[t].ainum,
                                ![t].last_inode = thr[t].ainum]
          /\ UNCHANGED panic
  /\ UNCHANGED <<ins, gcwait, dinode, uaf, journalVars, fileVars, dirVars, auxVars>>

\* ialloc returns: its scoped_gc_epoch ends.
IallocReturn(t) ==
  /\ Running /\ thr[t].pc = "ialloc_ret"
  /\ thr' = [thr EXCEPT ![t].pc = "idle", ![t].epoch = FALSE]
  /\ gcwait' = [o \in Objs |-> gcwait[o] \ {t}]
  /\ UNCHANGED <<ins, inodes, dinode, panic, uaf, journalVars, fileVars, dirVars, auxVars>>

\* The loop tail of ialloc: wrap to inum 1 once after ninodes - 1, else inum++.
IallocNext(t) ==
  /\ Running /\ thr[t].pc = "ialloc_next"
  /\ thr' = IF thr[t].ainum = NInodes - 1 /\ ~thr[t].all_scanned
            THEN [thr EXCEPT ![t].pc = "ialloc_loop", ![t].ainum = 1,
                             ![t].all_scanned = TRUE]
            ELSE [thr EXCEPT ![t].pc = "ialloc_loop", ![t].ainum = @ + 1]
  /\ UNCHANGED <<ins, inodes, gcwait, dinode, panic, uaf, journalVars, fileVars, dirVars, auxVars>>

\* ---------------------------------------------------- transactions, journal

Blocks == 1..NBlocks
TransIds == 1..MaxTrans

NoTrans == [state |-> "none", blocks |-> <<>>]

\* transaction_diskblock(n, buf, t): the block number and a copy of the data.
transaction_diskblock(n, data) == [blocknum |-> n, blockdata |-> data]

\* transaction::add_block: blocks.push_back(b), under write_lock.
add_block(tr, b) == [tr EXCEPT !.blocks = Append(@, b)]

\* transaction::transaction(t): a new, empty transaction.
NewTransaction(x) ==
  /\ trans[x].state = "none"
  /\ \A y \in TransIds : y < x => trans[y].state # "none"
  /\ trans' = [trans EXCEPT ![x] = [state |-> "open", blocks |-> <<>>]]
  /\ UNCHANGED <<disk, cache, dirty, journal, flush, clock, cacheVars, fileVars, dirVars, auxVars>>

\* One turn of writei's loop with writeback == false and a transaction: the
\* data is copied into the buffer under its write guard (the buffer is now
\* dirty) and bp->add_to_transaction(trans) snapshots the block into trans.
WriteiBlock(x, b) ==
  /\ trans[x].state = "open" /\ clock < MaxClock
  /\ clock' = clock + 1
  /\ cache' = [cache EXCEPT ![b] = clock + 1]
  /\ dirty' = [dirty EXCEPT ![b] = TRUE]
  /\ trans' = [trans EXCEPT ![x] = add_block(@, transaction_diskblock(b, clock + 1))]
  /\ UNCHANGED <<disk, journal, flush, cacheVars, fileVars, dirVars, auxVars>>

\* journal::add_transaction: transaction_log.push_back(tr).
add_transaction(x) ==
  /\ trans[x].state = "open"
  /\ trans' = [trans EXCEPT ![x].state = "queued"]
  /\ journal' = Append(journal, x)
  /\ UNCHANGED <<disk, cache, dirty, flush, clock, cacheVars, fileVars, dirVars, auxVars>>

\* mfs_interface::add_to_journal by callers that never run it while a
\* flush_journal is under way.
add_to_journal(x) == flush.pc = "idle" /\ add_transaction(x)

\* transaction::add_block called on a transaction that is already in the
\* journal (and not inside commit_transaction, which holds write_lock): the
\* current content of the buffer is pushed.
LateAddBlock(x, b) ==
  /\ trans[x].state = "queued"
  /\ ~(flush.pc = "commit" /\ flush.i <= Len(journal) /\ journal[flush.i] = x)
  /\ Len(trans[x].blocks) < MaxClock
  /\ trans' = [trans EXCEPT ![x] = add_block(@, transaction_diskblock(b, cache[b]))]
  /\ UNCHANGED <<disk, cache, dirty, journal, flush, clock, cacheVars, fileVars, dirVars, auxVars>>

\* journal::flush_to_disk is entered: i = 0.
FlushBegin ==
  /\ flush.pc = "idle"
  /\ flush' = [pc |-> "loop", i |-> 1, j |-> 1]
  /\ UNCHANGED <<disk, cache, dirty, trans, journal, clock, cacheVars, fileVars, dirVars, auxVars>>

\* A faulty loop test: i < transaction_log.size() - 1.
FlushLoop_StopEarly ==
  /\ flush.pc = "loop"
  /\ IF flush.i < Len(journal)
     THEN /\ flush' = [flush EXCEPT !.pc = "commit", !.j = 1]
          /\ UNCHANGED journal
     ELSE flush' = [flush EXCEPT !.pc = "clear"]
  /\ UNCHANGED <<disk, cache, dirty, trans, journal, clock, cacheVars, fileVars, dirVars, auxVars>>

\* The loop of flush_to_disk: commit_transaction of the next transaction, or
\* leave the loop after the last.
FlushLoop ==
  /\ flush.pc = "loop"
  /\ IF flush.i <= Len(journal)
     THEN /\ flush' = [flush EXCEPT !.pc = "commit", !.j = 1]
          /\ UNCHANGED journal
     ELSE flush' = [flush EXCEPT !.pc = "clear"]
  /\ UNCHANGED <<disk, cache, dirty, trans, journal, clock, cacheVars, fileVars, dirVars, auxVars>>

\* transaction_log.clear(); flush_to_disk returns.
FlushClear ==
  /\ flush.pc = "clear"
  /\ journal' = <<>>
  /\ flush' = [pc |-> "idle", i |-> 1, j |-> 1]
  /\ UNCHANGED <<disk, cache, dirty, trans, clock, cacheVars, fileVars, dirVars, auxVars>>

\* What commit_transaction puts on the disk for one of its blocks: the
\* buffer cache's content of that block number, when the buffer is dirty.
CommitWrites(b) == dirty[b]

\* The loop of commit_transaction: bp = buf::get(1, blocks.at(i).blocknum);
\* if (bp->dirty()) bp->writeback();  After the last block the transaction is
\* deleted by flush_to_disk.
CommitBlock ==
  LET x == journal[flush.i] IN
  /\ flush.pc = "commit"
  /\ IF flush.j <= Len(trans[x].blocks)
     THEN LET b == trans[x].blocks[flush.j].blocknum IN
          /\ disk' = IF CommitWrites(b) THEN [disk EXCEPT ![b] = cache[b]] ELSE disk
          /\ dirty' = [dirty EXCEPT ![b] = FALSE]
          /\ flush' = [flush EXCEPT !.j = @ + 1]
          /\ UNCHANGED trans
     ELSE /\ trans' = [trans EXCEPT ![x] = [state |-> "freed", blocks |-> <<>>]]
          /\ flush' = [flush EXCEPT !.pc = "loop", !.i = @ + 1, !.j = 1]
          /\ UNCHANGED <<disk, dirty>>
  /\ UNCHANGED <<cache, journal, clock, cacheVars, fileVars, dirVars, auxVars>>


\* ------------------------------------------------- blocks of a file: balloc

MAXFILE == NDIRECT + NINDIRECT + NINDIRECT * NINDIRECT

\* sb_root.size: block 0 is never handed out; the blocks of the largest file
\* with its indirect blocks, and one block more.
FsSize == MAXFILE + NINDIRECT + 4
FsBlocks == 1..(FsSize - 1)

ZeroPtrs == [i \in 0..(NINDIRECT - 1) |-> 0]
ZeroBytes == [i \in 0..(BSIZE - 1) |-> 0]

\* rootfs_interface->alloc_block(): a block that is free in the in-memory
\* bitmap, or sb_root.size when there is none.
AllocBlock(bitmap) ==
  IF FsBlocks \ bitmap = {} THEN FsSize
  ELSE CHOOSE b \in FsBlocks \ bitmap : \A c \in FsBlocks \ bitmap : b <= c

\* bzero(dev, b)
bzero(st, b) == [st EXCEPT !.ptrs[b] = ZeroPtrs, !.bytes[b] = ZeroBytes]

\* bp->add_to_transaction(trans)
Log(st, b, withTrans) == IF withTrans THEN [st EXCEPT !.logged = @ \cup {b}] ELSE st

\* balloc(dev, trans, zero_on_alloc): the block, or throw_out_of_blocks(),
\* which throws out_of_blocks in a build with EXCEPTIONS and panics otherwise.
balloc(st, withTrans, zero_on_alloc) ==
  LET b == AllocBlock(st.bitmap) IN
  IF b < FsSize
  THEN LET s1 == [st EXCEPT !.bitmap = @ \cup {b},
                            !.allocated = IF withTrans THEN Append(@, b) ELSE @]
       IN [st |-> IF zero_on_alloc THEN bzero(s1, b) ELSE s1, b |-> b, oob |-> FALSE]
  ELSE IF st.exc
       THEN [st |-> st, b |-> 0, oob |-> TRUE]
       ELSE [st |-> [st EXCEPT !.halted = "out of blocks"], b |-> 0, oob |-> FALSE]

\* An exception is in flight or the kernel has panicked.
Stopped(r) == r.oob \/ r.st.halted # "none"

\* F applied to the value of x: sequencing of one statement after another.
Then(x, F(_)) == CHOOSE y \in {F(v) : v \in {x}} : TRUE

BfreeMarks_Always(delayed_free) == TRUE

\* bfree: if (!delayed_free) rootfs_interface->free_block(b);
BfreeMarks(delayed_free) == ~delayed_free

\* bfree(dev, b, trans, delayed_free)
bfree(st, b, withTrans, delayed_free) ==
  [st EXCEPT !.bitmap = IF BfreeMarks(delayed_free) THEN @ \ {b} ELSE @,
             !.freed = IF withTrans THEN Append(@, b) ELSE @]

\* ------------------------------------------------------------------- bmap

\* if (ip->addrs[i] == 0) ip->addrs[i] = balloc(...); the block is ip->addrs[i]
MapAddrs(st, i, withTrans, zero) ==
  IF st.addrs[i] = 0
  THEN Then(balloc(st, withTrans, zero),
            LAMBDA r : IF Stopped(r) THEN r ELSE [r EXCEPT !.st.addrs[i] = r.b])
  ELSE [st |-> st, b |-> st.addrs[i], oob |-> FALSE]

\* if (ap[i] == 0) { ap[i] = balloc(...); if (trans) bp->add_to_transaction(trans); }
\* for ap the content of block blk; the block is ap[i]
MapPtr(st, blk, i, withTrans, zero) ==
  IF st.ptrs[blk][i] = 0
  THEN Then(balloc(st, withTrans, zero),
            LAMBDA r : IF Stopped(r) THEN r
                       ELSE [r EXCEPT !.st = Log([r.st EXCEPT !.ptrs[blk][i] = r.b],
                                                 blk, withTrans)])
  ELSE [st |-> st, b |-> st.ptrs[blk][i], oob |-> FALSE]

\* bmap(ip, bn, trans, zero_on_alloc)
bmap(st, bn, withTrans, zero) ==
  IF bn < NDIRECT THEN MapAddrs(st, bn, withTrans, zero)
  ELSE IF bn - NDIRECT < NINDIRECT
  THEN Then(MapAddrs(st, NDIRECT, withTrans, TRUE),
            LAMBDA r0 : IF Stopped(r0) THEN r0
                        ELSE MapPtr(r0.st, r0.b, bn - NDIRECT, withTrans, zero))
  ELSE IF bn - NDIRECT - NINDIRECT >= NINDIRECT * NINDIRECT
  THEN [st |-> [st EXCEPT !.halted = "bmap: out of range"], b |-> 0, oob |-> FALSE]
  ELSE LET d == bn - NDIRECT - NINDIRECT IN
       Then(MapAddrs(st, NDIRECT + 1, withTrans, TRUE),
            LAMBDA r0 :
              IF Stopped(r0) THEN r0
              ELSE Then(MapPtr(r0.st, r0.b, d \div NINDIRECT, withTrans, TRUE),
                        LAMBDA r1 :
                          IF Stopped(r1) THEN r1
                          ELSE MapPtr(r1.st, r1.b, d % NINDIRECT, withTrans, zero)))

\* ----------------------------------------------------------------- itrunc

\* #define BLOCKROUNDUP(off) (((off)%BSIZE) ? (off)/BSIZE+1 : (off)/BSIZE)
BLOCKROUNDUP(off) == IF off % BSIZE # 0 THEN (off \div BSIZE) + 1 ELSE off \div BSIZE

\* case DIRECT: for (i = start_index; i < NDIRECT; i++) { if (!ip->addrs[i]) break; ... }
RECURSIVE TruncDirect(_, _)
TruncDirect(st, i) ==
  IF i >= NDIRECT \/ st.addrs[i] = 0 THEN st
  ELSE TruncDirect([bfree(st, st.addrs[i], TRUE, TRUE) EXCEPT !.addrs[i] = 0], i + 1)

\* for (i = start; i < NINDIRECT; i++) { if (!ap[i]) break; bfree(ap[i]); ap[i] = 0; }
\* over the entries ap of block blk
RECURSIVE TruncPtrs(_, _, _)
TruncPtrs(st, blk, i) ==
  IF i >= NINDIRECT \/ st.ptrs[blk][i] = 0 THEN st
  ELSE TruncPtrs([bfree(st, st.ptrs[blk][i], TRUE, TRUE) EXCEPT !.ptrs[blk][i] = 0],
                 blk, i + 1)

\* case INDIRECT; brk says that the stage left the switch
TruncIndirect(st, start_index) ==
  IF st.addrs[NDIRECT] = 0 THEN [st |-> st, brk |-> TRUE]
  ELSE LET root == st.addrs[NDIRECT]
           s1 == TruncPtrs(st, root, start_index)
           s2 == IF start_index # 0 THEN Log(s1, root, TRUE) ELSE s1
           s3 == IF start_index = 0
                 THEN [bfree(s2, root, TRUE, TRUE) EXCEPT !.addrs[NDIRECT] = 0]
                 ELSE s2
       IN [st |-> s3, brk |-> FALSE]

\* case DOUBLY_INDIRECT: the loop over the first-level entries from i on
RECURSIVE TruncSecond(_, _, _, _)
TruncSecond(st, root, i, begin) ==
  IF i >= NINDIRECT \/ st.ptrs[root][i] = 0 THEN st
  ELSE LET b2 == st.ptrs[root][i]
           s1 == TruncPtrs(st, b2, begin % NINDIRECT)
           s2 == IF s1.ptrs[b2][0] = 0 THEN Log(s1, b2, TRUE) ELSE s1
           s3 == IF begin % NINDIRECT = 0
                 THEN [bfree(s2, b2, TRUE, TRUE) EXCEPT !.ptrs[root][i] = 0]
                 ELSE s2
       IN TruncSecond(s3, root, i + 1, 0)

\* case DOUBLY_INDIRECT
TruncDouble(st, start_index) ==
  IF st.addrs[NDIRECT + 1] = 0 THEN st
  ELSE LET root == st.addrs[NDIRECT + 1]
           s1 == TruncSecond(st, root, start_index \div NINDIRECT, start_index)
           s2 == IF start_index # 0 THEN Log(s1, root, TRUE) ELSE s1
       IN IF start_index = 0
          THEN [bfree(s2, root, TRUE, TRUE) EXCEPT !.addrs[NDIRECT + 1] = 0]
          ELSE s2

\* The switch of itrunc, entered at the stage of block bn, falling through.
TruncStages(st, bn) ==
  IF bn < NDIRECT
  THEN LET r == TruncIndirect(TruncDirect(st, bn), 0) IN
       IF r.brk THEN r.st ELSE TruncDouble(r.st, 0)
  ELSE IF bn < NDIRECT + NINDIRECT
  THEN LET r == TruncIndirect(st, bn - NDIRECT) IN
       IF r.brk THEN r.st ELSE TruncDouble(r.st, 0)
  ELSE TruncDouble(st, bn - NDIRECT - NINDIRECT)

\* itrunc(ip, offset, trans)
itrunc(st, offset) ==
  IF st.size <= offset \/ offset >= MAXFILE * BSIZE THEN st
  ELSE LET s1 == TruncStages(st, BLOCKROUNDUP(offset)) IN
       IF offset = 0 /\ \E i \in 0..(NDIRECT + 1) : s1.addrs[i] # 0
       THEN [s1 EXCEPT !.halted = "assert(ip->addrs[i] == 0)"]
       ELSE [s1 EXCEPT !.size = offset]

\* ---------------------------------------------------------- writei, readi

Min(a, b) == IF a < b THEN a ELSE b

CatchOutOfBlocks_Tot(tot) == tot

\* catch (out_of_blocks& e) { ...; if (tot == 0) tot = -1; break; }
CatchOutOfBlocks(tot) == IF tot = 0 THEN -1 ELSE tot

memmove_AtBlockStart(data, o, src, tot, m) ==
  [k \in 0..(BSIZE - 1) |-> IF k < m THEN src[tot + k + 1] ELSE data[k]]

\* memmove(locked->data + off%BSIZE, src, m), for o the offset in the block
\* and src advanced by tot
memmove(data, o, src, tot, m) ==
  [k \in 0..(BSIZE - 1) |-> IF k >= o /\ k < o + m THEN src[tot + (k - o) + 1] ELSE data[k]]

\* The loop of writei from byte tot of src on.
RECURSIVE WriteiLoop(_, _, _, _, _)
WriteiLoop(st, src, off, n, tot) ==
  IF tot >= n THEN [st |-> st, ret |-> tot, oob |-> FALSE]
  ELSE LET m == Min(n - tot, BSIZE - (off % BSIZE))
           skip_disk_read == off % BSIZE = 0 /\ m = BSIZE
       IN Then(bmap(st, off \div BSIZE, TRUE, ~skip_disk_read),
               LAMBDA r :
                 IF r.st.halted # "none" THEN [st |-> r.st, ret |-> tot, oob |-> FALSE]
                 ELSE IF r.oob
                 THEN [st |-> r.st, ret |-> CatchOutOfBlocks(tot), oob |-> TRUE]
                 ELSE LET buf == IF skip_disk_read THEN ZeroBytes ELSE r.st.bytes[r.b]
                          data == memmove(buf, off % BSIZE, src, tot, m)
                      IN Then(Log([r.st EXCEPT !.bytes[r.b] = data], r.b, TRUE),
                              LAMBDA s1 : WriteiLoop(s1, src, off + m, n, tot + m)))

\* writei(ip, src, off, n, trans, false)
writei(st, src, off, n) ==
  IF st.type = T_DEV THEN [st |-> st, ret |-> -1, oob |-> FALSE]
  ELSE IF (off + n) % U32 < off THEN [st |-> st, ret |-> -1, oob |-> FALSE]
  ELSE WriteiLoop(st, src, off,
                  IF off + n > MAXFILE * BSIZE THEN (MAXFILE * BSIZE - off) % U32 ELSE n,
                  0)

\* The loop of readi from byte tot on; an out_of_blocks here is a panic.
RECURSIVE ReadiLoop(_, _, _, _, _)
ReadiLoop(st, dst, off, n, tot) ==
  IF tot >= n THEN [st |-> st, ret |-> n, dst |-> dst]
  ELSE Then(bmap(st, off \div BSIZE, FALSE, TRUE),
            LAMBDA r :
              IF r.st.halted # "none" THEN [st |-> r.st, ret |-> -1, dst |-> dst]
              ELSE IF r.oob
              THEN [st |-> [r.st EXCEPT !.halted = "readi: out of blocks"],
                    ret |-> -1, dst |-> dst]
              ELSE LET m == Min(n - tot, BSIZE - (off % BSIZE))
                       got == [k \in 1..m |-> r.st.bytes[r.b][(off % BSIZE) + k - 1]]
                   IN Then(dst \o got,
                           LAMBDA d : ReadiLoop(r.st, d, off + m, n, tot + m)))

\* readi(ip, dst, off, n)
readi(st, off, n) ==
  IF st.type = T_DEV THEN [st |-> st, ret |-> -1, dst |-> <<>>]
  ELSE IF off > st.size \/ (off + n) % U32 < off THEN [st |-> st, ret |-> -1, dst |-> <<>>]
  ELSE ReadiLoop(st, <<>>, off, IF off + n > st.size THEN st.size - off ELSE n, 0)

\* ------------------------------------------------- the file layer's steps

\* Byte offsets and lengths writei is called with: the start and the middle of
\* a block, each tier, the last byte of the largest file; one byte, one block,
\* more than two blocks, the largest file.
FOffs == {0, 1, NDIRECT * BSIZE + 1, (NDIRECT + NINDIRECT) * BSIZE, MAXFILE * BSIZE - 1}
FLens == {1, BSIZE, 2 * BSIZE + 1, MAXFILE * BSIZE}

\* Sizes update_size is called with.
FSizes == {0, BSIZE + 1, 2 * BSIZE + 2, MAXFILE * BSIZE}

FileRunning == fs.halted = "none" /\ fs.nops < MaxOps

\* The bytes src of the next write: told apart by the write and by position.
Src(stamp, n) == [k \in 1..n |-> 16 * stamp + k]

\* What of a writei call stays on record for the calls that follow it; cut
\* says that an itrunc ran since.
LastWrite ==
  IF fres.op = "none"
  THEN [off |-> 0, n |-> 0, src |-> <<>>, ret |-> 0, seen |-> FALSE, cut |-> FALSE]
  ELSE fres.w

\* One call writei(ip, src, off, n, trans, false) and its record.
WriteiCall(off, n) ==
  LET r == writei(fs, Src(fs.nops + 1, n), off, n) IN
  /\ fs' = [r.st EXCEPT !.nops = @ + 1]
  /\ fres' = [op |-> "writei", off |-> off, n |-> n, ret |-> r.ret, dst |-> <<>>,
              oob |-> r.oob,
              pre |-> fs, prev |-> fres.op,
              w |-> [off |-> off, n |-> n, src |-> Src(fs.nops + 1, n), ret |-> r.ret,
                    seen |-> TRUE, cut |-> FALSE]]

WriteiStep ==
  /\ FileRunning
  /\ \E off \in FOffs, n \in FLens : WriteiCall(off, n)
  /\ UNCHANGED <<cacheVars, journalVars, dirVars, auxVars>>

\* update_size(ip, size, trans)
UpdateSizeStep ==
  /\ FileRunning
  /\ \E size \in FSizes :
       /\ fs' = [fs EXCEPT !.size = size, !.nops = @ + 1]
       /\ fres' = [op |-> "update_size", off |-> size, n |-> 0, ret |-> 0, dst |-> <<>>,
                   pre |-> fs, prev |-> fres.op, w |-> LastWrite]
  /\ UNCHANGED <<cacheVars, journalVars, dirVars, auxVars>>

ItruncStep ==
  /\ FileRunning
  /\ \E offset \in 0..(MAXFILE * BSIZE) :
       /\ fs' = [itrunc(fs, offset) EXCEPT !.nops = @ + 1]
       /\ fres' = [op |-> "itrunc", off |-> offset, n |-> 0, ret |-> 0, dst |-> <<>>,
                   pre |-> fs, prev |-> fres.op, w |-> [LastWrite EXCEPT !.cut = TRUE]]
  /\ UNCHANGED <<cacheVars, journalVars, dirVars, auxVars>>

\* One call readi(ip, dst, off, n) and its record.
ReadiCall(off, n) ==
  LET r == readi(fs, off, n) IN
  /\ fs' = [r.st EXCEPT !.nops = @ + 1]
  /\ fres' = [op |-> "readi", off |-> off, n |-> n, ret |-> r.ret, dst |-> r.dst,
              pre |-> fs, prev |-> fres.op, w |-> LastWrite]

\* The range of the last writei is read back.
ReadiStep ==
  /\ FileRunning
  /\ LastWrite.seen
  /\ ReadiCall(LastWrite.off, LastWrite.n)
  /\ UNCHANGED <<cacheVars, journalVars, dirVars, auxVars>>

\* Offsets and lengths at the edges of what readi and writei accept: around
\* the largest file size and up to the largest u32.
ArgOffs == {0, 1, MAXFILE * BSIZE - 1, MAXFILE * BSIZE, MAXFILE * BSIZE + 1}
ArgLens == {0, 1, BSIZE + 1, U32 - 1}

WriteiArgs ==
  /\ FileRunning
  /\ \E off \in ArgOffs, n \in ArgLens : WriteiCall(off, n)
  /\ UNCHANGED <<cacheVars, journalVars, dirVars, auxVars>>

ReadiArgs ==
  /\ FileRunning
  /\ \E off \in ArgOffs, n \in ArgLens : ReadiCall(off, n)
  /\ UNCHANGED <<cacheVars, journalVars, dirVars, auxVars>>

\* The transaction of the file commits: the blocks it recorded as freed are
\* marked free in the in-memory bitmap, and a new transaction starts.
CommitFileStep ==
  /\ FileRunning
  /\ fs.allocated # <<>> \/ fs.freed # <<>> \/ fs.logged # {}
  /\ fs' = [fs EXCEPT !.bitmap = @ \ {fs.freed[k] : k \in 1..Len(fs.freed)},
                      !.allocated = <<>>, !.freed = <<>>, !.logged = {},
                      !.nops = @ + 1]
  /\ fres' = [op |-> "commit", off |-> 0, n |-> 0, ret |-> 0, dst |-> <<>>,
              pre |-> fs, prev |-> fres.op, w |-> LastWrite]
  /\ UNCHANGED <<cacheVars, journalVars, dirVars, auxVars>>

\* ------------------------------------------------------------ directories

\* Entry names (DIRSIZ is scaled to 2 bytes) and the inodes they name; inode 1
\* is the directory itself.
Names == {"..", "a", "b"}
DirInums == 1..3

\* Offsets and sizes of a directory are counted in units of sizeof(struct
\* dirent), so that BSIZE entries fill one block.
sizeof_dirent == 1

\* Offsets of directory entries: two blocks and the first entry of a third.
DirMax == 2 * BSIZE * sizeof_dirent
DirSlots == {k * sizeof_dirent : k \in 0..(2 * BSIZE)}

\* struct dirent with inum 0: a free or tombstoned slot
NoDirent == [inum |-> 0, name |-> ""]

\* No dir_entry_info for a name; lookup leaves the caller's default in place.
NoEntry == [in |-> FALSE, inum_ |-> 0, offset_ |-> 0]

\* dir_entries::insert: fails if the name is present
dir_insert(d, name, inum, offset) ==
  IF d.dir[name].in THEN [d |-> d, ok |-> FALSE]
  ELSE [d |-> [d EXCEPT !.dir[name] = [in |-> TRUE, inum_ |-> inum, offset_ |-> offset]],
        ok |-> TRUE]

\* dir_entries::remove: fails if the name is absent
dir_remove(d, name) ==
  IF d.dir[name].in THEN [d |-> [d EXCEPT !.dir[name] = NoEntry], ok |-> TRUE]
  ELSE [d |-> d, ok |-> FALSE]

\* dir_entries::lookup into a default-constructed dir_entry_info
dir_lookup(d, name) == d.dir[name]

\* dir_init: the loop over the entries of the blocks below dp->size, from
\* byte offset off on; end is the end of the last block read.
RECURSIVE DirScan(_, _, _)
DirScan(d, off, end) ==
  IF off >= end THEN d
  ELSE Then(IF d.ents[off].inum # 0
            THEN dir_insert(d, d.ents[off].name, d.ents[off].inum, off).d
            ELSE d,
            LAMBDA d1 : DirScan(d1, off + sizeof_dirent, end))

\* dir_init(dp)
dir_init(d) ==
  IF d.has_dir THEN d
  ELSE LET end == BLOCKROUNDUP(d.size) * BSIZE IN
       [DirScan([d EXCEPT !.has_dir = TRUE], 0, end) EXCEPT !.dir_offset = end]

\* dir_flush_entry(dp, name, trans); wr collects the entries it writes
dir_flush_entry(r, name) ==
  IF ~r.d.has_dir THEN r
  ELSE LET de_info == dir_lookup(r.d, name)
           de == [inum |-> de_info.inum_, name |-> name]
       IN IF de_info.offset_ \notin DirSlots
          THEN [r EXCEPT !.d.halted = "dir_flush_entry"]
          ELSE [r EXCEPT !.d.ents[de_info.offset_] = de,
                         !.d.size = IF @ < de_info.offset_ + sizeof_dirent
                                    THEN de_info.offset_ + sizeof_dirent ELSE @,
                         !.wr = Append(@, [off |-> de_info.offset_, de |-> de])]

\* dirlookup(dp, name): the inum of the inode returned, 0 for none
dirlookup(d, name) ==
  LET d1 == dir_init(d) IN
  [d |-> d1, ret |-> dir_lookup(d1, name).inum_, wr |-> <<>>]

\* dirlink(dp, name, inum, inc_link, trans). The if statement at the insert
\* ends at its semicolon, so the return -1 after it is taken always and the
\* rest of the function is never run.
dirlink(d, name, inum, inc_link) ==
  LET r == dir_insert(dir_init(d), name, inum, dir_init(d).dir_offset) IN
  [d |-> r.d, ret |-> -1, wr |-> <<>>]

\* ip->unlink() for the inode inum, dp->unlink() for inode 1
dir_unlink_counts(d, name, inum, dec_link) ==
  IF name = ".." THEN d
  ELSE LET d1 == [d EXCEPT !.nlink[inum] = @ - 1] IN
       IF dec_link THEN [d1 EXCEPT !.nlink[1] = @ - 1] ELSE d1

\* A dirunlink that goes on although the name could not be removed.
RemoveFailed_Never(r) == FALSE

\* dirunlink: if (!dp->dir->remove(name)) return -1
RemoveFailed(r) == ~r.ok

\* A dirunlink that leaves the tombstoned name in the index.
DropName_Keep(d, name) == d

\* dirunlink: the dp->dir->remove(name) after the flush
DropName(d, name) == dir_remove(d, name).d

\* dirunlink(dp, name, inum, dec_link, trans)
dirunlink(d, name, inum, dec_link) ==
  LET d0 == dir_init(d)
      de_info == dir_lookup(d0, name)
      r1 == dir_remove(d0, name)
  IN IF RemoveFailed(r1) THEN [d |-> d0, ret |-> -1, wr |-> <<>>]
     ELSE Then(dir_insert(r1.d, name, 0, de_info.offset_),
               LAMBDA r2 :
                 IF ~r2.ok THEN [d |-> r2.d, ret |-> -1, wr |-> <<>>]
                 ELSE Then(dir_flush_entry(
                             [d |-> dir_unlink_counts(r2.d, name, inum, dec_link),
                              ret |-> 0, wr |-> <<>>], name),
                           LAMBDA r3 : [r3 EXCEPT !.d = DropName(r3.d, name)]))

\* ----------------------------------------------- the directory layer's steps

DirRunning == dp.halted = "none" /\ dp.nops < MaxOps

\* One call on the directory and its record.
DirCall(op, name, inum, flag, r) ==
  /\ dp' = [r.d EXCEPT !.nops = @ + 1]
  /\ dres' = [op |-> op, name |-> name, inum |-> inum, flag |-> flag, ret |-> r.ret,
              wr |-> r.wr, pre |-> dp]

DirInitStep ==
  /\ DirRunning
  /\ ~dp.has_dir
  /\ DirCall("dir_init", "", 0, FALSE, [d |-> dir_init(dp), ret |-> 0, wr |-> <<>>])
  /\ UNCHANGED <<cacheVars, journalVars, fileVars, nx, auxVars>>

DirlookupStep ==
  /\ DirRunning
  /\ \E name \in Names : DirCall("dirlookup", name, 0, FALSE, dirlookup(dp, name))
  /\ UNCHANGED <<cacheVars, journalVars, fileVars, nx, auxVars>>

DirlinkStep ==
  /\ DirRunning
  /\ \E name \in Names, inum \in DirInums \ {1}, inc_link \in BOOLEAN :
       DirCall("dirlink", name, inum, inc_link, dirlink(dp, name, inum, inc_link))
  /\ UNCHANGED <<cacheVars, journalVars, fileVars, nx, auxVars>>

DirunlinkStep ==
  /\ DirRunning
  /\ \E name \in Names, inum \in DirInums \ {1}, dec_link \in BOOLEAN :
       DirCall("dirunlink", name, inum, dec_link, dirunlink(dp, name, inum, dec_link))
  /\ UNCHANGED <<cacheVars, journalVars, fileVars, nx, auxVars>>

\* ------------------------------------- lookups while the index is being built

\* The threads of di: each calls dirlookup(dp, name) once, without a latch on
\* dp; built counts the indexes allocated for dp.
DiIdle == [pc |-> "idle", name |-> "", off |-> 0, ret |-> 0]
DiStart == [op |-> "dirlookup", built |-> 0, th |-> [t \in Threads |-> DiIdle]]

\* A thread calls dirlookup(dp, name), which calls dir_init(dp).
DiCall(t) ==
  /\ di.th[t].pc = "idle"
  /\ \E name \in Names : di' = [di EXCEPT !.th[t].pc = "init_check", !.th[t].name = name]
  /\ UNCHANGED <<cacheVars, journalVars, fileVars, dp, dres, nx, bm>>

\* dir_init: if (dp->dir) return;
DiCheck(t) ==
  /\ di.th[t].pc = "init_check"
  /\ di' = [di EXCEPT !.th[t].pc = IF dp.has_dir THEN "lookup" ELSE "init_alloc"]
  /\ UNCHANGED <<cacheVars, journalVars, fileVars, dp, dres, nx, bm>>

\* dir_init: dp->dir = new dir_entries(NDIR_ENTRIES_PRIME); u32 dir_offset = 0;
DiAlloc(t) ==
  /\ di.th[t].pc = "init_alloc"
  /\ dp' = [dp EXCEPT !.has_dir = TRUE, !.dir = [n \in Names |-> NoEntry]]
  /\ di' = [di EXCEPT !.built = @ + 1, !.th[t].pc = "init_scan", !.th[t].off = 0]
  /\ UNCHANGED <<cacheVars, journalVars, fileVars, dres, nx, bm>>

\* dir_init: one entry of the loops, inserted into the index dp->dir points
\* to now; after the last block, dp->dir_offset = dir_offset.
DiScan(t) ==
  LET off == di.th[t].off IN
  /\ di.th[t].pc = "init_scan"
  /\ IF off < BLOCKROUNDUP(dp.size) * BSIZE
     THEN /\ dp' = IF dp.ents[off].inum # 0
                   THEN dir_insert(dp, dp.ents[off].name, dp.ents[off].inum, off).d
                   ELSE dp
          /\ di' = [di EXCEPT !.th[t].off = off + sizeof_dirent]
     ELSE /\ dp' = [dp EXCEPT !.dir_offset = off]
          /\ di' = [di EXCEPT !.th[t].pc = "lookup"]
  /\ UNCHANGED <<cacheVars, journalVars, fileVars, dres, nx, bm>>

\* dirlookup: dp->dir->lookup(name, &de_info) and the return
DiLookup(t) ==
  /\ di.th[t].pc = "lookup"
  /\ di' = [di EXCEPT !.th[t].pc = "done", !.th[t].ret = dir_lookup(dp, di.th[t].name).inum_]
  /\ UNCHANGED <<cacheVars, journalVars, fileVars, dp, dres, nx, bm>>

\* ------------------------------------------------------------------ paths

\* The characters of a path; NUL ends a string.
Letters == {"x", "y"}
Slash == "/"
NUL == ""
Paths == UNION {[1..n -> Letters \cup {Slash}] : n \in 0..MaxPath}

\* *path, NUL at the end of the string
At(path, pos) == IF pos > Len(path) THEN NUL ELSE path[pos]

\* skipelem: while (*path == '/') path++
RECURSIVE SkipSlashes(_, _)
SkipSlashes(path, pos) ==
  IF At(path, pos) = Slash THEN SkipSlashes(path, pos + 1) ELSE pos

\* skipelem: while (*path != '/' && *path != 0) path++
RECURSIVE SkipName(_, _)
SkipName(path, pos) ==
  IF At(path, pos) # Slash /\ At(path, pos) # NUL THEN SkipName(path, pos + 1) ELSE pos

\* A skipelem that refuses names of DIRSIZ bytes too.
TooLong_AtDirsiz(len) == len >= DIRSIZ

\* skipelem: if (len > DIRSIZ)
TooLong(len) == len > DIRSIZ

\* A skipelem that copies the name without ending it.
CopyName_NoTerminator(name, path, s, len) ==
  [i \in 1..DIRSIZ |-> IF i <= len THEN path[s + i - 1] ELSE name[i]]

\* skipelem: memmove(name, s, len); if (len < DIRSIZ) name[len] = 0
CopyName(name, path, s, len) ==
  [i \in 1..DIRSIZ |->
     IF i <= len THEN path[s + i - 1] ELSE IF i = len + 1 THEN NUL ELSE name[i]]

\* skipelem(&path, name): r is the value returned, pos the new *rpath
skipelem(path, pos, name) ==
  LET s == SkipSlashes(path, pos)
      e == SkipName(path, s)
  IN IF At(path, s) = NUL THEN [r |-> 0, pos |-> pos, name |-> name]
     ELSE IF TooLong(e - s) THEN [r |-> -1, pos |-> pos, name |-> name]
     ELSE [r |-> 1, pos |-> SkipSlashes(path, e), name |-> CopyName(name, path, s, e - s)]

\* strbuf<DIRSIZ>(name): the bytes of the buffer up to a NUL, DIRSIZ at most
RECURSIVE strbuf(_)
strbuf(name) ==
  IF name = <<>> \/ Head(name) = NUL THEN <<>> ELSE <<Head(name)>> \o strbuf(Tail(name))

\* The tree that paths are looked up in: inode 1 is the root; 1, 2 and 3 are
\* directories, 4 is a file. Names have one byte or DIRSIZ bytes.
TreeInums == 1..4
the_root == 1
TreeType == [i \in TreeInums |-> IF i = 4 THEN T_FILE ELSE T_DIR]
LongName == [i \in 1..DIRSIZ |-> IF i = 1 THEN "x" ELSE "y"]
Tree ==
  [i \in TreeInums |->
     IF i = 1 THEN {<<<<"x">>, 2>>, <<LongName, 3>>, <<<<"y">>, 4>>}
     ELSE IF i = 2 THEN {<<LongName, 4>>, <<<<"y">>, 3>>}
     ELSE IF i = 3 THEN {<<<<"x">>, 4>>, <<LongName, 2>>}
     ELSE {}]

\* dirlookup(ip, name) as namex calls it: the inode found, 0 for none
TreeLookup(ip, key) ==
  IF \E e \in Tree[ip] : e[1] = key
  THEN (CHOOSE e \in Tree[ip] : e[1] = key)[2]
  ELSE 0

\* namex: the loop over the path's elements; looked collects the dirlookup
\* calls made.
RECURSIVE NamexLoop(_, _, _, _, _, _)
NamexLoop(path, pos, ip, name, parent, looked) ==
  Then(skipelem(path, pos, name),
       LAMBDA k :
         IF k.r # 1
         THEN [ret |-> IF k.r = -1 \/ parent THEN 0 ELSE ip, name |-> k.name,
               looked |-> looked]
         ELSE IF TreeType[ip] # T_DIR
         THEN [ret |-> 0, name |-> k.name, looked |-> looked]
         ELSE IF parent /\ At(path, k.pos) = NUL
         THEN [ret |-> ip, name |-> k.name, looked |-> looked]
         ELSE Then(TreeLookup(ip, strbuf(k.name)),
                   LAMBDA next :
                     IF next = 0
                     THEN [ret |-> 0, name |-> k.name,
                           looked |-> Append(looked, [ip |-> ip, key |-> strbuf(k.name)])]
                     ELSE NamexLoop(path, k.pos, next, k.name, parent,
                                    Append(looked, [ip |-> ip, key |-> strbuf(k.name)]))))

\* namex(cwd, path, nameiparent, name)
namex(cwd, path, parent, name) ==
  NamexLoop(path, 1, IF At(path, 1) = Slash THEN the_root ELSE cwd, name, parent, <<>>)

\* One path lookup on the arguments held in nx, and its record.
PathCall(op, parent) ==
  /\ nx.op = "args"
  /\ LET r == namex(nx.cwd, nx.path, parent, nx.name) IN
       nx' = [op |-> op, cwd |-> nx.cwd, path |-> nx.path, ret |-> r.ret,
              name |-> r.name, looked |-> r.looked]

\* namei(cwd, path)
NameiStep ==
  /\ PathCall("namei", FALSE)
  /\ UNCHANGED <<cacheVars, journalVars, fileVars, dp, dres, auxVars>>

\* nameiparent(cwd, path, name)
NameiparentStep ==
  /\ PathCall("nameiparent", TRUE)
  /\ UNCHANGED <<cacheVars, journalVars, fileVars, dp, dres, auxVars>>

\* ------------------------------------------------------ the on-disk bitmap

\* Bits per bitmap block, the first bitmap block, and the bitmap block that
\* holds block b's bit.
BPB == 2 ^ LogBPB
BitmapStart == 3
BBLOCK(b) == (b \div BPB) + BitmapStart

\* The blocks a batch may name: the ends of the bytes and of the bitmap blocks.
BlockNums == {0, 1, 7, 8, BPB - 1, BPB, BPB + 9, 2 * BPB - 1}
BitmapBlocks == {BBLOCK(b) : b \in BlockNums}
Lists == UNION {[1..n -> BlockNums] : n \in 0..MaxList}

\* a & b and a | b on unsigned numbers
RECURSIVE BitAnd(_, _)
BitAnd(a, b) ==
  IF a = 0 \/ b = 0 THEN 0
  ELSE (IF a % 2 = 1 /\ b % 2 = 1 THEN 1 ELSE 0) + 2 * BitAnd(a \div 2, b \div 2)

RECURSIVE BitOr(_, _)
BitOr(a, b) ==
  IF a = 0 THEN b
  ELSE IF b = 0 THEN a
  ELSE (IF a % 2 = 1 \/ b % 2 = 1 THEN 1 ELSE 0) + 2 * BitOr(a \div 2, b \div 2)

\* std::sort(blocks.begin(), blocks.end())
RECURSIVE SortInsert(_, _)
SortInsert(sorted, x) ==
  IF sorted = <<>> THEN <<x>>
  ELSE IF x <= Head(sorted) THEN <<x>> \o sorted
  ELSE <<Head(sorted)>> \o SortInsert(Tail(sorted), x)

RECURSIVE SortBlocks(_)
SortBlocks(blocks) ==
  IF blocks = <<>> THEN <<>>
  ELSE SortInsert(SortBlocks(Tail(blocks)), Head(blocks))

\* A batch that takes every block as the last one of its bitmap block.
MaxBno_Self(bno) == bno

\* balloc_free_on_disk: max_bno = *bno | (BPB - 1)
MaxBno(bno) == BitOr(bno, BPB - 1)

\* balloc_free_on_disk: the test and the update of one block's bit
BitUpdate(st, bno, alloc) ==
  LET bi == bno % BPB
      m == 2 ^ (bi % 8)
      byte == st.data[BBLOCK(bno)][bi \div 8]
  IN IF alloc
     THEN IF BitAnd(byte, m) # 0
          THEN [st EXCEPT !.halted = "balloc_free_on_disk: block already in use"]
          ELSE [st EXCEPT !.data[BBLOCK(bno)][bi \div 8] = BitOr(byte, m)]
     ELSE IF BitAnd(byte, m) = 0
          THEN [st EXCEPT !.halted = "balloc_free_on_disk: block already free"]
          ELSE [st EXCEPT !.data[BBLOCK(bno)][bi \div 8] = BitAnd(byte, 255 - m)]

\* balloc_free_on_disk: the do-while loop over the blocks of one bitmap block,
\* and the bitmap block's addition to the transaction after it
RECURSIVE BitmapGroup(_, _, _, _, _)
BitmapGroup(st, blocks, i, max_bno, alloc) ==
  Then(BitUpdate(st, blocks[i], alloc),
       LAMBDA st1 :
         IF st1.halted # "none" THEN [st |-> st1, i |-> i]
         ELSE IF i + 1 <= Len(blocks) /\ blocks[i + 1] <= max_bno
         THEN BitmapGroup(st1, blocks, i + 1, max_bno, alloc)
         ELSE [st |-> [st1 EXCEPT !.logged = Append(@, BBLOCK(blocks[i]))], i |-> i + 1])

\* balloc_free_on_disk: the for loop over the bitmap blocks
RECURSIVE BitmapLoop(_, _, _, _)
BitmapLoop(st, blocks, i, alloc) ==
  IF i > Len(blocks) THEN st
  ELSE Then(BitmapGroup(st, blocks, i, MaxBno(blocks[i]), alloc),
            LAMBDA g :
              IF g.st.halted # "none" THEN g.st
              ELSE BitmapLoop(g.st, blocks, g.i, alloc))

\* balloc_free_on_disk(blocks, trans, alloc)
balloc_free_on_disk(st, blocks, alloc) == BitmapLoop(st, SortBlocks(blocks), 1, alloc)

\* The bytes of the bitmap blocks in which exactly the bits of set are set.
BitmapOf(set) ==
  [k \in BitmapBlocks |->
     [y \in 0..((BPB \div 8) - 1) |->
        LET base == (k - BitmapStart) * BPB + y * 8
            bit(j) == IF base + j \in set THEN 2 ^ j ELSE 0
        IN bit(0) + bit(1) + bit(2) + bit(3) + bit(4) + bit(5) + bit(6) + bit(7)]]

\* One call of balloc_free_on_disk on the arguments held in bm.
BallocFreeOnDiskStep ==
  /\ bm.op = "args"
  /\ LET r == balloc_free_on_disk([data |-> bm.data, logged |-> <<>>, halted |-> "none"],
                                  bm.blocks, bm.alloc)
     IN bm' = [op |-> "balloc_free_on_disk", blocks |-> bm.blocks, alloc |-> bm.alloc,
               pre |-> bm.data, data |-> r.data, logged |-> r.logged,
               halted |-> r.halted]
  /\ UNCHANGED <<cacheVars, journalVars, fileVars, dirVars, di>>

\* ------------------------------------------------------------ specifications

FreeDinode == [type |-> T_FREE, nlink |-> 0, size |-> 0, addrs0 |-> 0, gen |-> 0]

\* Disk inodes as mkfs and the file system leave them: a free inode is zeroed,
\* a file with data has its first block mapped.
UsedDinode == [type |-> T_FILE, nlink |-> 1, size |-> 1, addrs0 |-> 1, gen |-> 1]

DinodeSet ==
  {FreeDinode,
   [type |-> T_FILE, nlink |-> 0, size |-> 0, addrs0 |-> 0, gen |-> 1],
   UsedDinode,
   [type |-> T_DEV, nlink |-> 1, size |-> 0, addrs0 |-> 0, gen |-> 1]}

\* The file layer at rest: an empty file, everything free, nothing run yet.
NoFile ==
  [type |-> T_FILE, size |-> 0, addrs |-> [i \in 0..(NDIRECT + 1) |-> 0],
   ptrs |-> [b \in FsBlocks |-> ZeroPtrs], bytes |-> [b \in FsBlocks |-> ZeroBytes],
   bitmap |-> {}, other |-> {}, allocated |-> <<>>, freed |-> <<>>, logged |-> {},
   exc |-> TRUE, halted |-> "none", nops |-> 0]

NoRes == [op |-> "none"]

\* The directory layer at rest: an empty directory without an index.
NoDir ==
  [has_dir |-> FALSE, dir |-> [n \in Names |-> NoEntry], dir_offset |-> 0, size |-> 0,
   ents |-> [k \in DirSlots |-> NoDirent], nlink |-> [i \in DirInums |-> 1],
   halted |-> "none", nops |-> 0]

InitJournal ==
  /\ disk = [b \in Blocks |-> 0]
  /\ cache = [b \in Blocks |-> 0]
  /\ dirty = [b \in Blocks |-> FALSE]
  /\ trans = [x \in TransIds |-> NoTrans]
  /\ journal = <<>>
  /\ flush = [pc |-> "idle", i |-> 1, j |-> 1]
  /\ clock = 0
  /\ fs = NoFile
  /\ fres = NoRes
  /\ dp = NoDir
  /\ dres = NoRes
  /\ bm = NoRes
  /\ di = NoRes
  /\ nx = NoRes

\* After initinode: nothing but the root is cached (the root is not modelled).
\* The threads work on inum 1, whose disk inode is any of DinodeSet.
InitCache ==
  /\ ins = [i \in AllInums |-> NoObj]
  /\ inodes = [o \in Objs |-> Unused]
  /\ gcwait = [o \in Objs |-> {}]
  /\ \E d \in DinodeSet : dinode = [i \in AllInums |-> IF i = 1 THEN d ELSE FreeDinode]
  /\ thr = [t \in Threads |-> IdleThread(0)]
  /\ panic = "none"
  /\ uaf = FALSE

IgetStep(t) ==
  \/ IgetLookup(t) \/ IgetNewref(t) \/ IgetWait(t) \/ IgetAlloc(t)
  \/ IgetInsert(t) \/ IgetLose(t) \/ IgetInit(t) \/ IgetUnlock(t)

\* The inode cache: iget, references, destruction and reclamation.
NextCache ==
  \/ \E t \in Threads :
       \/ CallIget(t, 1) \/ IgetStep(t)
       \/ FreeInode(t) \/ Drop(t)
       \/ OnZero(t) \/ OnZeroRemove(t)
       \/ ExitEpoch(t) \/ UseAfterFree(t)
  \/ \E o \in Objs : DoGc(o)

InitCacheSpec == InitCache /\ InitJournal

\* Threads race to iget one inode that is not cached yet.
NextIget == \E t \in Threads : CallIget(t, 1) \/ IgetStep(t) \/ OnZero(t)

SpecIget == InitCacheSpec /\ [][NextIget]_vars

SpecCache == InitCacheSpec /\ [][NextCache]_vars

\* Link counts and references: files are opened (iget), linked and unlinked
\* under the write latch, read, closed and reclaimed.
NextLink ==
  \E t \in Threads :
    \/ CallIget(t, 1) \/ IgetStep(t)
    \/ CallIlock(t, WRITELOCK) \/ Ilock(t) \/ Iunlock(t)
    \/ Link(t) \/ Unlink(t)
    \/ \E off \in {0, 2}, n \in {1} : Readi(t, off, n)
    \/ FreeInode(t) \/ Drop(t)
    \/ OnZero(t) \/ OnZeroRemove(t)

SpecLink == InitCacheSpec /\ [][NextLink]_vars

\* The latch of one cached inode that every thread holds a reference to.
InitLatch ==
  /\ ins = [i \in AllInums |-> IF i = 1 THEN 1 ELSE NoObj]
  /\ \E d \in DinodeSet :
       /\ dinode = [i \in AllInums |-> IF i = 1 THEN d ELSE FreeDinode]
       /\ inodes = [o \in Objs |->
                      IF o = 1
                      THEN [InodeInit(NewInode(1), d) EXCEPT !.ref = @ - 1 + NThreads]
                      ELSE Unused]
  /\ gcwait = [o \in Objs |-> {}]
  /\ thr = [t \in Threads |-> [IdleThread(0) EXCEPT !.ip = 1]]
  /\ panic = "none"
  /\ uaf = FALSE

NextLatch ==
  \E t \in Threads :
    \/ \E m \in {READLOCK, WRITELOCK} : CallIlock(t, m)
    \/ Ilock(t) \/ Iunlock(t)

InitLatchSpec == InitLatch /\ InitJournal

SpecLatch == InitLatchSpec /\ [][NextLatch]_vars

\* Fair scheduling of the latch: a thread inside ilock is run, whether it is
\* about to test the latch or was woken, and a thread that holds the latch
\* calls iunlock in the end.
SpecLatchFair ==
  SpecLatch /\ \A t \in Threads : WF_vars(Ilock(t)) /\ WF_vars(Iunlock(t))

\* ialloc called by every thread, starting from one last_inode value.
InitIalloc ==
  /\ ins = [i \in AllInums |-> NoObj]
  /\ inodes = [o \in Objs |-> Unused]
  /\ gcwait = [o \in Objs |-> {}]
  /\ dinode \in [AllInums -> {FreeDinode, UsedDinode}]
  /\ dinode[0] = FreeDinode
  /\ \E last \in AllInums : thr = [t \in Threads |-> IdleThread(last)]
  /\ panic = "none"
  /\ uaf = FALSE

IallocStep(t) ==
  \/ CallIalloc(t, T_FILE)
  \/ IallocLoop(t) \/ TryIalloc(t) \/ TryIallocLocked(t) \/ IallocNext(t)
  \/ IallocReturn(t)
  \/ IgetStep(t)
  \/ Ilock(t) \/ Iunlock(t) \/ Drop(t) \/ OnZero(t)

NextIalloc == \E t \in Threads : IallocStep(t)

InitIallocSpec == InitIalloc /\ InitJournal

SpecIalloc == InitIallocSpec /\ [][NextIalloc]_vars

\* ialloc with no concurrent allocator: thread 1 alone, again and again.
InitIallocSeqSpec == InitIallocSpec

NextIallocSeq ==
  \/ CallIalloc(1, T_FILE)
  \/ IallocLoop(1) \/ TryIalloc(1) \/ TryIallocLocked(1) \/ IallocNext(1)
  \/ IallocReturn(1)
  \/ IgetLookup(1) \/ IgetNewref(1) \/ IgetAlloc(1) \/ IgetInsert(1)
  \/ IgetInit(1) \/ IgetUnlock(1)
  \/ Ilock(1) \/ Iunlock(1) \/ Drop(1)

SpecIallocSeq == InitIallocSeqSpec /\ [][NextIallocSeq]_vars

\* The lone allocator is scheduled for as long as it has a step to take.
SpecIallocSeqFair == SpecIallocSeq /\ WF_vars(NextIallocSeq)

\* The journal: transactions are filled by writei, queued and flushed.
NextJournal ==
  \/ \E x \in TransIds : NewTransaction(x) \/ add_transaction(x)
  \/ \E x \in TransIds, b \in Blocks : WriteiBlock(x, b)
  \/ FlushBegin \/ FlushLoop \/ FlushClear \/ CommitBlock

InitIdle ==
  /\ ins = [i \in AllInums |-> NoObj]
  /\ inodes = [o \in Objs |-> Unused]
  /\ gcwait = [o \in Objs |-> {}]
  /\ dinode = [i \in AllInums |-> FreeDinode]
  /\ thr = [t \in Threads |-> IdleThread(0)]
  /\ panic = "none"
  /\ uaf = FALSE

InitJournalSpec == InitIdle /\ InitJournal

SpecJournal == InitJournalSpec /\ [][NextJournal]_vars

\* The journal used by callers that serialise add_to_journal and flush_journal.
InitJournalSerialSpec == InitJournalSpec

NextJournalSerial ==
  \/ \E x \in TransIds : NewTransaction(x) \/ add_to_journal(x)
  \/ \E x \in TransIds, b \in Blocks : WriteiBlock(x, b)
  \/ FlushBegin \/ FlushLoop \/ FlushClear \/ CommitBlock

SpecJournalSerial == InitJournalSerialSpec /\ [][NextJournalSerial]_vars

\* The journal with callers that go on logging into a queued transaction.
InitJournalLateSpec == InitJournalSpec

NextJournalLate ==
  \/ \E x \in TransIds : NewTransaction(x) \/ add_transaction(x)
  \/ \E x \in TransIds, b \in Blocks : WriteiBlock(x, b) \/ LateAddBlock(x, b)
  \/ FlushBegin \/ FlushLoop \/ FlushClear \/ CommitBlock

SpecJournalLate == InitJournalLateSpec /\ [][NextJournalLate]_vars

\* The largest file: written from the first to the last byte, its size
\* updated, its transaction committed.
FullFile(st) ==
  [writei(st, Src(0, MAXFILE * BSIZE), 0, MAXFILE * BSIZE).st
     EXCEPT !.size = MAXFILE * BSIZE, !.allocated = <<>>, !.logged = {}]

\* The cache and the journal at rest; one file of either type, empty or the
\* largest, in a file system with few or many free blocks, in a build with or
\* without EXCEPTIONS.
InitFileSpec ==
  /\ InitIdle
  /\ disk = [b \in Blocks |-> 0]
  /\ cache = [b \in Blocks |-> 0]
  /\ dirty = [b \in Blocks |-> FALSE]
  /\ trans = [x \in TransIds |-> NoTrans]
  /\ journal = <<>>
  /\ flush = [pc |-> "idle", i |-> 1, j |-> 1]
  /\ clock = 0
  /\ \E type \in {T_FILE, T_DEV}, nfree \in {2, FsSize - 1}, exc \in BOOLEAN,
        full \in BOOLEAN :
       LET empty == [NoFile EXCEPT !.type = type, !.exc = exc,
                                   !.bitmap = {b \in FsBlocks : b > nfree},
                                   !.other = {b \in FsBlocks : b > nfree}]
       IN /\ full => type = T_FILE /\ nfree = FsSize - 1
          /\ fs = IF full THEN FullFile(empty) ELSE empty
  /\ fres = NoRes
  /\ dp = NoDir
  /\ dres = NoRes
  /\ bm = NoRes
  /\ di = NoRes
  /\ nx = NoRes

NextFile == WriteiStep \/ UpdateSizeStep \/ ItruncStep \/ ReadiStep \/ CommitFileStep

SpecFile == InitFileSpec /\ [][NextFile]_vars

\* readi and writei called with arguments at the edges of their ranges.
InitFileArgsSpec == InitFileSpec

NextFileArgs == WriteiArgs \/ ReadiArgs \/ UpdateSizeStep

SpecFileArgs == InitFileArgsSpec /\ [][NextFileArgs]_vars

\* A directory as it is on disk before its index is built: ".." first, then
\* entries for a and b or free slots, with any size up to three entries.
InitDirSpec ==
  /\ InitIdle
  /\ disk = [b \in Blocks |-> 0]
  /\ cache = [b \in Blocks |-> 0]
  /\ dirty = [b \in Blocks |-> FALSE]
  /\ trans = [x \in TransIds |-> NoTrans]
  /\ journal = <<>>
  /\ flush = [pc |-> "idle", i |-> 1, j |-> 1]
  /\ clock = 0
  /\ fs = NoFile
  /\ fres = NoRes
  /\ \E n \in 0..3, has_a \in BOOLEAN, has_b \in BOOLEAN :
       /\ has_a => n >= 2
       /\ has_b => n >= 3
       /\ dp = [NoDir EXCEPT
                  !.size = n * sizeof_dirent,
                  !.ents = [k \in DirSlots |->
                              IF k = 0 /\ n >= 1 THEN [inum |-> 3, name |-> ".."]
                              ELSE IF k = sizeof_dirent /\ has_a THEN [inum |-> 2, name |-> "a"]
                              ELSE IF k = 2 * sizeof_dirent /\ has_b THEN [inum |-> 3, name |-> "b"]
                              ELSE NoDirent]]
  /\ dres = NoRes
  /\ bm = NoRes
  /\ di = NoRes
  /\ nx = NoRes

NextDir == DirInitStep \/ DirlookupStep \/ DirlinkStep \/ DirunlinkStep

SpecDir == InitDirSpec /\ [][NextDir]_vars

\* Threads look names up in a directory that has no index yet.
InitDirRaceSpec ==
  /\ InitIdle
  /\ disk = [b \in Blocks |-> 0]
  /\ cache = [b \in Blocks |-> 0]
  /\ dirty = [b \in Blocks |-> FALSE]
  /\ trans = [x \in TransIds |-> NoTrans]
  /\ journal = <<>>
  /\ flush = [pc |-> "idle", i |-> 1, j |-> 1]
  /\ clock = 0
  /\ fs = NoFile
  /\ fres = NoRes
  /\ \E n \in 0..3, has_a \in BOOLEAN, has_b \in BOOLEAN :
       /\ has_a => n >= 2
       /\ has_b => n >= 3
       /\ dp = [NoDir EXCEPT
                  !.size = n * sizeof_dirent,
                  !.ents = [k \in DirSlots |->
                              IF k = 0 /\ n >= 1 THEN [inum |-> 3, name |-> ".."]
                              ELSE IF k = sizeof_dirent /\ has_a THEN [inum |-> 2, name |-> "a"]
                              ELSE IF k = 2 * sizeof_dirent /\ has_b THEN [inum |-> 3, name |-> "b"]
                              ELSE NoDirent]]
  /\ dres = NoRes
  /\ nx = NoRes
  /\ bm = NoRes
  /\ di = DiStart

NextDirRace ==
  \E t \in Threads : DiCall(t) \/ DiCheck(t) \/ DiAlloc(t) \/ DiScan(t) \/ DiLookup(t)

SpecDirRace == InitDirRaceSpec /\ [][NextDirRace]_vars

\* Path lookups on the fixed tree: any starting directory and path, and any
\* bytes in the caller's name buffer.
InitPathSpec ==
  /\ InitIdle
  /\ disk = [b \in Blocks |-> 0]
  /\ cache = [b \in Blocks |-> 0]
  /\ dirty = [b \in Blocks |-> FALSE]
  /\ trans = [x \in TransIds |-> NoTrans]
  /\ journal = <<>>
  /\ flush = [pc |-> "idle", i |-> 1, j |-> 1]
  /\ clock = 0
  /\ fs = NoFile
  /\ fres = NoRes
  /\ dp = NoDir
  /\ dres = NoRes
  /\ bm = NoRes
  /\ di = NoRes
  /\ \E cwd \in TreeInums \ {4}, path \in Paths, junk \in {NUL, "x"} :
       nx = [op |-> "args", cwd |-> cwd, path |-> path,
             name |-> [i \in 1..DIRSIZ |-> junk]]

NextPath == NameiStep \/ NameiparentStep

SpecPath == InitPathSpec /\ [][NextPath]_vars

\* The on-disk bitmap with no block, one block, all but one and all of the
\* blocks in use, and any batch of blocks to allocate or to free.
InitBitmapSpec ==
  /\ InitIdle
  /\ disk = [b \in Blocks |-> 0]
  /\ cache = [b \in Blocks |-> 0]
  /\ dirty = [b \in Blocks |-> FALSE]
  /\ trans = [x \in TransIds |-> NoTrans]
  /\ journal = <<>>
  /\ flush = [pc |-> "idle", i |-> 1, j |-> 1]
  /\ clock = 0
  /\ fs = NoFile
  /\ fres = NoRes
  /\ dp = NoDir
  /\ dres = NoRes
  /\ nx = NoRes
  /\ \E blocks \in Lists, alloc \in BOOLEAN,
        used \in {{}, {1}, BlockNums \ {BPB}, BlockNums} :
       bm = [op |-> "args", blocks |-> blocks, alloc |-> alloc, data |-> BitmapOf(used)]
  /\ di = NoRes

NextBitmap == BallocFreeOnDiskStep

SpecBitmap == InitBitmapSpec /\ [][NextBitmap]_vars

\* -------------------------------------------------------------- properties

\* iget (or ialloc) has handed the thread a reference and the thread is back
\* in its caller.
IgetReturned(t) == thr[t].pc = "idle" /\ thr[t].ip # NoObj

\* The sref<inode> objects that point at o.
Srefs(o) == Cardinality({t \in Threads : thr[t].ip = o})

\* The type ialloc sees for inum i: the cached inode's, else the disk inode's.
EffType(i) ==
  IF ins[i] # NoObj /\ inodes[ins[i]].valid THEN inodes[ins[i]].type
  ELSE dinode[i].type

SeqFromTo(a, b) == [k \in 1..(b - a + 1) |-> a + k - 1]

\* The inums ialloc tries, in order, when its loop starts at s and finds
\* nothing: s..ninodes-1 without inum 0, then 1..ninodes-1 once more.
ScanOrder(s) ==
  SeqFromTo(IF s = 0 THEN 1 ELSE s, NInodes - 1) \o SeqFromTo(1, NInodes - 1)

IsPrefix(p, q) == Len(p) <= Len(q) /\ \A k \in 1..Len(p) : p[k] = q[k]

\* C1: the inode latch is exclusive for a writer: while a thread holds the
\* write latch of an inode no other thread holds its write or read latch (two
\* readers may hold it together), and the latch words count the holders.
C1_LatchMutualExclusion ==
  /\ \A t \in Threads, u \in Threads :
       (t # u /\ thr[t].ip = thr[u].ip /\ thr[t].held = WRITELOCK)
         => thr[u].held = "none"
  /\ \A o \in Objs :
       inodes[o].st = "live" =>
         /\ inodes[o].readbusy
              = Cardinality({t \in Threads : thr[t].ip = o /\ thr[t].held # "none"})
         /\ inodes[o].busy
              <=> (\E t \in Threads : thr[t].ip = o /\ thr[t].held = WRITELOCK)

\* A writer holds the latch and a reader sleeps on the condition variable.
C1_WriterHoldsReaderSleeps ==
  \E t \in Threads, u \in Threads :
    /\ t # u /\ thr[t].ip = thr[u].ip
    /\ thr[t].held = WRITELOCK
    /\ thr[u].pc = "ilock_sleep" /\ thr[u].mode = READLOCK

\* C2: threads that race to iget an uncached inode cause no panic, every
\* thread that returned holds the object the hash table maps the inum to, and
\* all of them hold the same object.
C2_IgetRaceTransparent ==
  /\ panic = "none"
  /\ \A t \in Threads : IgetReturned(t) => ins[thr[t].inum] = thr[t].ip
  /\ \A t \in Threads, u \in Threads :
       (IgetReturned(t) /\ IgetReturned(u) /\ thr[t].inum = thr[u].inum)
         => thr[t].ip = thr[u].ip

C4_ConcurrentIalloc ==
  /\ panic = "none"
  /\ \A t \in Threads, u \in Threads :
       (t # u /\ thr[t].ret > 0) => thr[t].ret # thr[u].ret
  /\ \A t \in Threads :
       (thr[t].pc = "ialloc_ret" /\ thr[t].ret = -1)
         => \A i \in Inums : EffType(i) # T_FREE

\* C5: alone, ialloc tries the inums in the order that starts at
\* (last_inode + 1) mod ninodes and wraps once, never inum 0; it returns the
\* inode write-locked and records it in last_inode when it found one FREE, and
\* returns empty, after the whole scan, only when none is FREE; it always
\* comes to its return.
C5_IallocScan ==
  /\ [](/\ IsPrefix(thr[1].scanned, ScanOrder((thr[1].alast + 1) % NInodes))
        /\ \A k \in 1..Len(thr[1].scanned) : thr[1].scanned[k] \in Inums
        /\ thr[1].ret # 0
        /\ (thr[1].pc = "ialloc_ret" /\ thr[1].ret > 0) =>
             /\ thr[1].ip # NoObj /\ inodes[thr[1].ip].inum = thr[1].ret
             /\ thr[1].ret = thr[1].scanned[Len(thr[1].scanned)]
             /\ thr[1].held = WRITELOCK
             /\ inodes[thr[1].ip].busy /\ inodes[thr[1].ip].readbusy = 1
             /\ inodes[thr[1].ip].type = thr[1].atype
             /\ thr[1].last_inode = thr[1].ret
        /\ (thr[1].pc = "ialloc_ret" /\ thr[1].ret = -1) =>
             /\ thr[1].ip = NoObj
             /\ thr[1].scanned = ScanOrder((thr[1].alast + 1) % NInodes)
             /\ \A i \in Inums : EffType(i) # T_FREE)
  /\ (thr[1].pc = "ialloc_loop") ~> (thr[1].pc = "ialloc_ret")

\* ialloc wrapped around and then found a FREE inum.
C5_WrappedAndAllocated ==
  thr[1].pc = "ialloc_ret" /\ thr[1].ret > 0 /\ thr[1].all_scanned

\* C6 as stated: the reference count of a valid inode is one for a positive
\* link count plus the outstanding srefs.
C6_RefcountAsStated ==
  \A o \in Objs :
    inodes[o].valid =>
      inodes[o].ref = (IF inodes[o].nlink_ > 0 THEN 1 ELSE 0) + Srefs(o)

\* C6: the reference count of a valid inode is one for a positive link count,
\* plus the outstanding srefs, plus the reference inode::init took until
\* mfs_interface::free_inode has given it back.
C6_Refcount ==
  \A o \in Objs :
    inodes[o].valid =>
      inodes[o].ref = (IF inodes[o].nlink_ > 0 THEN 1 ELSE 0) + Srefs(o)
                        + (IF inodes[o].extra THEN 1 ELSE 0)

\* link() took an inode loaded with no link to link count 1.
C6_LinkedFromZero ==
  \E o \in Objs :
    /\ inodes[o].valid /\ inodes[o].nlink_ = 1
    /\ dinode[inodes[o].inum].nlink = 0
    /\ inodes[o].ref = Srefs(o) + 2

\* C7: an inode whose link count is gone but whose init-time reference has
\* not been given back stays in the hash table, alive, and a read of it
\* succeeds; an inode leaves the hash table only in its own onzero(), which a
\* dec() to reference count zero starts, with that reference given back.
C7_UnlinkKeepsOpenFile ==
  /\ [](\A o \in Objs :
          (inodes[o].valid /\ inodes[o].extra /\ inodes[o].nlink_ <= 0) =>
            /\ inodes[o].st = "live"
            /\ ins[inodes[o].inum] = o
            /\ inodes[o].ref > 0
            /\ inodes[o].type = T_FILE =>
                 \A off \in 0..inodes[o].size : ReadiRet(inodes[o], off, 1) >= 0)
  /\ [][\A o \in Objs :
          (ins[inodes[o].inum] = o /\ ins'[inodes[o].inum] # o) =>
            /\ ~inodes[o].extra
            /\ \E t \in Threads : thr[t].pc = "onzero_remove" /\ thr[t].this = o]_vars

\* A file loaded with one link was unlinked; a thread still has it open and
\* has read from it.
C7_ReadAfterUnlink ==
  \E o \in Objs, t \in Threads :
    /\ inodes[o].valid /\ inodes[o].extra
    /\ dinode[inodes[o].inum].nlink = 1 /\ inodes[o].nlink_ = 0
    /\ thr[t].ip = o /\ thr[t].pc = "idle" /\ thr[t].held = "none"
    /\ thr[t].ret = 1

\* C8: no thread uses a deleted inode it got from the hash table, and no
\* inode is deleted while a reader that was in its epoch at the removal is
\* still inside.
C8_RcuDeferredDestruction ==
  /\ ~uaf
  /\ \A o \in Objs : inodes[o].st = "freed" => gcwait[o] = {}

\* The transaction is in the journal's hands for commit_transaction.
Committing(x) ==
  flush.pc = "commit" /\ flush.i <= Len(journal) /\ journal[flush.i] = x

\* C9: the disk holds no payload logged by a transaction whose commit has not
\* begun.
C9_NoDurabilityBeforeCommit ==
  \A x \in TransIds :
    (trans[x].state \in {"open", "queued"} /\ ~Committing(x)) =>
      \A k \in 1..Len(trans[x].blocks) :
        disk[trans[x].blocks[k].blocknum] # trans[x].blocks[k].blockdata

\* The disk holds the transaction's update of the block its k-th snapshot
\* names (versions grow with every write).
Applied(x, k) ==
  disk[trans[x].blocks[k].blocknum] >= trans[x].blocks[k].blockdata

\* C10: at every point, a crash point included, the disk holds all the block
\* updates of a transaction in the journal or none of them.
C10_CommitAtomicity ==
  \A x \in TransIds :
    trans[x].state = "queued" =>
    \/ \A k \in 1..Len(trans[x].blocks) : Applied(x, k)
    \/ \A k \in 1..Len(trans[x].blocks) : ~Applied(x, k)

LastSnapshot(x, k) ==
  \A l \in (k + 1)..Len(trans[x].blocks) :
    trans[x].blocks[l].blocknum # trans[x].blocks[k].blocknum

\* C12: when commit_transaction has gone through the blocks of a transaction,
\* the disk holds, for every block number it recorded, the payload captured
\* when the block was logged.
C12_CommitWritesSnapshot ==
  (flush.pc = "commit" /\ flush.i <= Len(journal)
     /\ flush.j > Len(trans[journal[flush.i]].blocks)) =>
    \A k \in 1..Len(trans[journal[flush.i]].blocks) :
      LastSnapshot(journal[flush.i], k) =>
        disk[trans[journal[flush.i]].blocks[k].blocknum]
          = trans[journal[flush.i]].blocks[k].blockdata

\* C13: a transaction holds at most one snapshot per block number.
C13_OneSnapshotPerBlock ==
  \A x \in TransIds :
    \A k \in 1..Len(trans[x].blocks), l \in 1..Len(trans[x].blocks) :
      k # l => trans[x].blocks[k].blocknum # trans[x].blocks[l].blocknum

\* C14: a transaction that is in the journal keeps the blocks it had when it
\* was added.
C14_Sealed ==
  [][\A x \in TransIds :
       (trans[x].state = "queued" /\ trans'[x].state = "queued")
         => trans'[x].blocks = trans[x].blocks]_vars

\* C15: add_transaction does not run inside flush_to_disk, and no transaction
\* leaves the queue without having been committed.
C15_QueueLatch ==
  /\ [][(\E x \in TransIds : journal' = Append(journal, x)) => flush.pc = "idle"]_vars
  /\ [][journal' = <<>> =>
          \A k \in 1..Len(journal) : trans[journal[k]].state = "freed"]_vars

\* C16: after itrunc(ip, 0, t) on any file that writei, bmap and update_size
\* can build, itrunc has returned, ip.size is 0 and every ip.addrs[i] is 0.
C16_TruncateToZero ==
  (fres.op = "itrunc" /\ fres.off = 0) =>
    /\ fs.halted = "none"
    /\ fs.size = 0
    /\ \A i \in 0..(NDIRECT + 1) : fs.addrs[i] = 0

\* The data block mapped at logical block bn of the file, 0 for none.
Lookup(st, bn) ==
  IF bn < NDIRECT THEN st.addrs[bn]
  ELSE IF bn - NDIRECT < NINDIRECT
  THEN IF st.addrs[NDIRECT] = 0 THEN 0 ELSE st.ptrs[st.addrs[NDIRECT]][bn - NDIRECT]
  ELSE LET d == bn - NDIRECT - NINDIRECT
           root == st.addrs[NDIRECT + 1]
       IN IF root = 0 THEN 0
          ELSE IF st.ptrs[root][d \div NINDIRECT] = 0 THEN 0
          ELSE st.ptrs[st.ptrs[root][d \div NINDIRECT]][d % NINDIRECT]

\* The indirect block, the doubly-indirect root and the second-level blocks.
PtrBlocks(st) ==
  ({st.addrs[NDIRECT], st.addrs[NDIRECT + 1]} \cup
   (IF st.addrs[NDIRECT + 1] = 0 THEN {}
    ELSE {st.ptrs[st.addrs[NDIRECT + 1]][i] : i \in 0..(NINDIRECT - 1)})) \ {0}

\* What the call on record added to the freed blocks of the transaction.
NewlyFreed == SubSeq(fs.freed, Len(fres.pre.freed) + 1, Len(fs.freed))

Times(q, b) == Cardinality({k \in 1..Len(q) : q[k] = b})

\* C17: itrunc(ip, offset, t) with offset < ip.size records as freed, once
\* each, the data blocks mapped at logical blocks >= ceil(offset/BSIZE) and
\* the pointer blocks all of whose entries it released, nothing else; the data
\* blocks below stay mapped; ip.size becomes offset.
C17_TruncateFreesTail ==
  (fres.op = "itrunc" /\ fres.off < fres.pre.size) =>
    LET pre == fres.pre
        bn0 == BLOCKROUNDUP(fres.off)
    IN /\ fs.halted = "none"
       /\ fs.size = fres.off
       /\ \A bn \in 0..(MAXFILE - 1) :
            IF bn >= bn0
            THEN Lookup(pre, bn) # 0 => Times(NewlyFreed, Lookup(pre, bn)) = 1
            ELSE /\ Lookup(fs, bn) = Lookup(pre, bn)
                 /\ Times(NewlyFreed, Lookup(pre, bn)) = 0
       /\ \A b \in PtrBlocks(pre) :
            /\ Times(NewlyFreed, b) = 1 <=> \A i \in 0..(NINDIRECT - 1) : fs.ptrs[b][i] = 0
            /\ Times(NewlyFreed, b) <= 1
            /\ Times(NewlyFreed, b) = 1 => b \notin PtrBlocks(fs)
       /\ \A k \in 1..Len(NewlyFreed) :
            \/ NewlyFreed[k] \in PtrBlocks(pre)
            \/ \E bn \in bn0..(MAXFILE - 1) : Lookup(pre, bn) = NewlyFreed[k]

\* The blocks the open transaction has recorded as freed.
PendingFree(st) == {st.freed[k] : k \in 1..Len(st.freed)}

\* C18: a block that itrunc freed inside the transaction stays allocated in
\* the in-memory bitmap, and no balloc returns it, until the transaction has
\* committed.
C18_DelayedFree ==
  /\ [](PendingFree(fs) \subseteq fs.bitmap)
  /\ [][(fs'.bitmap \ fs.bitmap) \cap PendingFree(fs) = {}]_vars

\* A balloc ran while a block freed by itrunc was waiting for the commit.
C18_AllocWhilePending ==
  /\ fres.op = "writei"
  /\ fres.pre.freed # <<>>
  /\ fs.freed = fres.pre.freed
  /\ fs.bitmap # fres.pre.bitmap

\* C19 as stated: a readi of the range that the writei just before it wrote
\* returns the length of that range and the bytes written (checked for the
\* calls in which writei itself returned the whole length).
C19_RoundTripAsStated ==
  (fres.op = "readi" /\ fres.prev = "writei" /\ fres.w.ret = fres.w.n) =>
    /\ fres.ret = fres.w.n
    /\ fres.dst = fres.w.src

\* C19: when writei has returned the whole length |b| and ip.size has reached
\* o + |b| (writei leaves the size to update_size), a readi of the range, with
\* no itrunc or other writei in between, returns |b| and the bytes written.
C19_RoundTrip ==
  (/\ fres.op = "readi"
   /\ fres.w.ret = fres.w.n
   /\ ~fres.w.cut
   /\ fres.pre.size >= fres.w.off + fres.w.n) =>
    /\ fs.halted = "none"
    /\ fres.ret = fres.w.n
    /\ fres.dst = fres.w.src

\* An unaligned range from the indirect into the doubly-indirect tier was
\* written and read back.
C19_ReadBackAcrossTiers ==
  /\ fres.op = "readi"
  /\ fres.w.off = NDIRECT * BSIZE + 1
  /\ fres.w.n = 2 * BSIZE + 1
  /\ fres.ret = fres.w.n
  /\ fres.dst = fres.w.src

\* The writei on record ran out of blocks: balloc threw or panicked in it.
Exhausted == fres.op = "writei" /\ (fres.oob \/ fs.halted = "out of blocks")

\* The first cnt bytes of the request of the writei on record are in the
\* buffer cache, in blocks added to the transaction.
WrittenBytes(cnt) ==
  \A k \in 0..(cnt - 1) :
    LET b == Lookup(fs, (fres.off + k) \div BSIZE) IN
    /\ b # 0
    /\ b \in fs.logged
    /\ fs.bytes[b][(fres.off + k) % BSIZE] = fres.w.src[k + 1]

Untouched == fs = [fres.pre EXCEPT !.nops = @ + 1]

\* C21: readi and writei return -1 and touch nothing for a T_DEV inode, for
\* off + n beyond u32, for readi's off > ip.size and for writei's off beyond
\* MAXFILE*BSIZE; otherwise (unless the blocks run out) readi returns
\* min(n, ip.size - off), writei at most MAXFILE*BSIZE - off, and bmap is
\* never asked for a logical block >= MAXFILE.
C21_ArgumentErrors ==
  /\ fres.op = "readi" =>
       IF \/ fres.pre.type = T_DEV
          \/ fres.off + fres.n >= U32
          \/ fres.off > fres.pre.size
       THEN fres.ret = -1 /\ Untouched
       ELSE /\ fs.halted # "bmap: out of range"
            /\ fs.halted = "none" => fres.ret = Min(fres.n, fres.pre.size - fres.off)
  /\ fres.op = "writei" =>
       IF \/ fres.pre.type = T_DEV
          \/ fres.off + fres.n >= U32
          \/ fres.off > MAXFILE * BSIZE
       THEN fres.ret = -1 /\ Untouched
       ELSE /\ fs.halted # "bmap: out of range"
            /\ (fs.halted = "none" /\ ~fres.oob) =>
                 fres.ret >= 0 /\ fres.ret <= MAXFILE * BSIZE - fres.off

\* The positions of the address graph of the file that hold block b: slots of
\* ip->addrs and entries of its indirect blocks.
Positions(st, b) ==
  {<<0, i>> : i \in {j \in 0..(NDIRECT + 1) : st.addrs[j] = b}} \cup
  {q \in PtrBlocks(st) \X (0..(NINDIRECT - 1)) : st.ptrs[q[1]][q[2]] = b}

\* C22: a block is allocated in the in-memory bitmap if and only if it is at
\* exactly one position of the address graph of the file or belongs to the
\* rest of the file system; no block is at two positions. (A block freed in
\* the open transaction counts as assigned until the commit.)
C22_BitmapInvariant ==
  fs.halted = "none" =>
    \A b \in FsBlocks :
      /\ Cardinality(Positions(fs, b)) <= 1
      /\ b \in fs.bitmap <=>
           \/ Cardinality(Positions(fs, b)) = 1
           \/ b \in fs.other
           \/ b \in PendingFree(fs)

\* The directory as a call that changed nothing would leave it, its index
\* built if it was not.
DirUnchanged == dp = [dir_init(dres.pre) EXCEPT !.nops = @ + 1]

\* C23: dirlink returns -1 only when the name is already in the index, and
\* then leaves the directory unchanged; when the name is absent it returns 0,
\* having inserted (inum, old dir_offset), advanced dir_offset, raised the link
\* count of the target and written the entry to the directory's data.
C23_DirlinkResult ==
  dres.op = "dirlink" =>
    LET d0 == dir_init(dres.pre) IN
    IF d0.dir[dres.name].in
    THEN dres.ret = -1 /\ DirUnchanged
    ELSE /\ dres.ret = 0
         /\ dp.dir[dres.name] =
              [in |-> TRUE, inum_ |-> dres.inum, offset_ |-> d0.dir_offset]
         /\ dp.dir_offset = d0.dir_offset + sizeof_dirent
         /\ dres.name # ".." => dp.nlink[dres.inum] = d0.nlink[dres.inum] + 1
         /\ dp.ents[d0.dir_offset] = [inum |-> dres.inum, name |-> dres.name]

\* The names in the index of directory d
InIndex(d) == {n \in Names : d.dir[n].in}

\* C24: a dirlink that adds a name gives it the offset dir_offset held before
\* the call and advances dir_offset by sizeof(dirent); so the offsets in the
\* index are pairwise distinct and all below dir_offset, and no slot is used
\* twice.
C24_DirectoryOffsets ==
  /\ (dres.op = "dirlink" /\ dres.name \notin InIndex(dir_init(dres.pre))) =>
       /\ dp.dir[dres.name].offset_ = dir_init(dres.pre).dir_offset
       /\ dp.dir_offset = dir_init(dres.pre).dir_offset + sizeof_dirent
  /\ dp.has_dir =>
       \A n \in InIndex(dp) :
         /\ dp.dir[n].offset_ < dp.dir_offset
         /\ \A m \in InIndex(dp) \ {n} : dp.dir[m].offset_ # dp.dir[n].offset_

\* 1 if the call changes dp's own link count by the statement's rule, else 0
OwnLink == IF dres.flag /\ dres.name # ".." THEN 1 ELSE 0

\* C25: a dirlink that adds a name raises the link count of the target inode
\* by one, and that of dp by one exactly if inc_link holds and the name is not
\* ".."; a dirunlink that returns 0 lowers them in the same way.
C25_LinkCounts ==
  /\ (dres.op = "dirlink" /\ dres.name \notin InIndex(dir_init(dres.pre))) =>
       /\ dp.nlink[dres.inum] = dres.pre.nlink[dres.inum] + 1
       /\ dp.nlink[1] = dres.pre.nlink[1] + OwnLink
  /\ (dres.op = "dirunlink" /\ dres.ret = 0) =>
       /\ dp.nlink[dres.inum] = dres.pre.nlink[dres.inum] - 1
       /\ dp.nlink[1] = dres.pre.nlink[1] - OwnLink

\* C26: dirunlink of a name that is not in the directory returns -1 and
\* changes nothing: the index, dir_offset, the size, every link count and the
\* entries on disk are as before, and nothing is written.
C26_UnlinkAbsent ==
  (dres.op = "dirunlink" /\ dres.name \notin InIndex(dir_init(dres.pre))) =>
    /\ dres.ret = -1
    /\ dres.wr = <<>>
    /\ DirUnchanged

\* A dirunlink of an absent name on a directory that holds other names.
C26_AbsentAmongOthers ==
  /\ dres.op = "dirunlink"
  /\ dres.name \notin InIndex(dir_init(dres.pre))
  /\ InIndex(dp) # {}
  /\ dres.flag
  /\ dres.ret = -1

C28_IndexMatchesDisk ==
  dres.op \in {"dirlink", "dirunlink", "dir_init"} =>
    \A n \in InIndex(dp) :
      /\ dp.ents[dp.dir[n].offset_] = [inum |-> dp.dir[n].inum_, name |-> n]
      /\ \A m \in InIndex(dp) \ {n} : dp.dir[m].offset_ # dp.dir[n].offset_

\* C29: after dir_init on a directory of any size, and after every dirlink
\* and dirunlink, dir_offset equals the size of the directory.
C29_OffsetEqualsSize ==
  dres.op \in {"dir_init", "dirlink", "dirunlink"} => dp.dir_offset = dp.size

\* The components of a path: its maximal runs of bytes other than '/'; cur is
\* the run being read.
RECURSIVE Components(_, _)
Components(path, cur) ==
  IF path = <<>> THEN IF cur = <<>> THEN <<>> ELSE <<cur>>
  ELSE IF Head(path) # Slash THEN Components(Tail(path), Append(cur, Head(path)))
  ELSE IF cur = <<>> THEN Components(Tail(path), <<>>)
  ELSE <<cur>> \o Components(Tail(path), <<>>)

\* The inode reached from ip through the names comps, 0 if there is none.
RECURSIVE Walk(_, _)
Walk(ip, comps) ==
  IF comps = <<>> THEN ip
  ELSE IF ip = 0 \/ TreeType[ip] # T_DIR THEN 0
  ELSE IF \E e \in Tree[ip] : e[1] = Head(comps)
  THEN Walk((CHOOSE e \in Tree[ip] : e[1] = Head(comps))[2], Tail(comps))
  ELSE 0

\* The components of the path looked up last, and where the lookup started.
NxComps == Components(nx.path, <<>>)
NxStart == IF nx.path # <<>> /\ nx.path[1] = Slash THEN the_root ELSE nx.cwd

\* The directory in which component i of the path is to be looked up, 0 if the
\* path does not lead to one.
NxDir(i) ==
  LET d == Walk(NxStart, SubSeq(NxComps, 1, i - 1)) IN
  IF d # 0 /\ TreeType[d] = T_DIR THEN d ELSE 0

\* C30: namei and nameiparent return no inode whenever some component of the
\* path has more than DIRSIZ bytes, wherever it stands, and make no lookup for
\* that component; each lookup made is for a whole component, and a component
\* of exactly DIRSIZ bytes that the walk reaches is looked up with all of its
\* DIRSIZ bytes.
C30_ComponentLength ==
  nx.op \in {"namei", "nameiparent"} =>
    /\ \A i \in 1..Len(NxComps) :
         Len(NxComps[i]) > DIRSIZ => nx.ret = 0 /\ Len(nx.looked) < i
    /\ \A i \in 1..Len(nx.looked) : nx.looked[i].key = NxComps[i]
    /\ \A i \in 1..Len(NxComps) :
         ( /\ Len(NxComps[i]) = DIRSIZ
           /\ \A j \in 1..(i - 1) : Len(NxComps[j]) <= DIRSIZ
           /\ NxDir(i) # 0
           /\ nx.op = "namei" \/ i < Len(NxComps) )
         => /\ Len(nx.looked) >= i
            /\ nx.looked[i] = [ip |-> NxDir(i), key |-> NxComps[i]]

\* A path whose first component has DIRSIZ bytes and is looked up, and whose
\* second component is too long.
C30_LongAfterFull ==
  /\ nx.op = "namei"
  /\ Len(NxComps) = 2
  /\ Len(NxComps[1]) = DIRSIZ
  /\ Len(NxComps[2]) > DIRSIZ
  /\ Len(nx.looked) = 1
  /\ Len(nx.looked[1].key) = DIRSIZ
  /\ nx.ret = 0

\* C31: namei of the empty path returns no inode, from every starting
\* directory.
C31_EmptyPath ==
  (nx.op = "namei" /\ nx.path = <<>>) => nx.ret = 0

\* C32: namex looks a component up only in a directory; for a path whose
\* components all fit, namei returns the inode the components lead to and
\* nothing if a component is missing or an inode on the way is no directory;
\* nameiparent returns the directory that would hold the last component, with
\* that component copied into the name buffer, and nothing for a path without
\* a component.
C32_PathTraversal ==
  nx.op \in {"namei", "nameiparent"} =>
    /\ \A i \in 1..Len(nx.looked) : TreeType[nx.looked[i].ip] = T_DIR
    /\ (\A i \in 1..Len(NxComps) : Len(NxComps[i]) <= DIRSIZ) =>
         /\ (nx.op = "namei" /\ NxComps # <<>>) => nx.ret = Walk(NxStart, NxComps)
         /\ (nx.op = "nameiparent" /\ NxComps = <<>>) => nx.ret = 0
         /\ (nx.op = "nameiparent" /\ NxComps # <<>>) =>
              /\ nx.ret = NxDir(Len(NxComps))
              /\ nx.ret # 0 => strbuf(nx.name) = NxComps[Len(NxComps)]

\* nameiparent of a path with a first component of DIRSIZ bytes and a shorter
\* last one, which ends in the directory the first component names.
C32_ParentOfShortName ==
  /\ nx.op = "nameiparent"
  /\ Len(NxComps) = 2
  /\ Len(NxComps[1]) = DIRSIZ
  /\ Len(NxComps[2]) < DIRSIZ
  /\ Len(nx.looked) = 1
  /\ nx.ret \notin {0, NxStart}

\* The blocks whose bit is set in the bytes data of the bitmap blocks.
BitsSet(data) ==
  {b \in 0..(2 * BPB - 1) :
     (data[BBLOCK(b)][(b % BPB) \div 8] \div (2 ^ (b % 8))) % 2 = 1}

\* The blocks of a batch, and whether it names a block twice.
Listed == {bm.blocks[i] : i \in 1..Len(bm.blocks)}
Duplicate == Cardinality(Listed) < Len(bm.blocks)

\* C33: balloc_free_on_disk, for any list of blocks in any order, halts if a
\* listed bit is already set (allocating) or already clear (freeing) or if the
\* list names a block twice; otherwise it sets or clears exactly the bits of
\* the listed blocks and adds each bitmap block that holds one of them to the
\* transaction exactly once, and no other block.
C33_BitmapBatch ==
  bm.op = "balloc_free_on_disk" =>
    IF \/ Duplicate
       \/ bm.alloc /\ Listed \cap BitsSet(bm.pre) # {}
       \/ ~bm.alloc /\ Listed \ BitsSet(bm.pre) # {}
    THEN bm.halted # "none"
    ELSE /\ bm.halted = "none"
         /\ BitsSet(bm.data) = IF bm.alloc THEN BitsSet(bm.pre) \cup Listed
                                ELSE BitsSet(bm.pre) \ Listed
         /\ \A k \in BitmapBlocks :
              Cardinality({i \in 1..Len(bm.logged) : bm.logged[i] = k}) =
                IF \E b \in Listed : BBLOCK(b) = k THEN 1 ELSE 0

\* An unsorted batch of three blocks, two of them in one bitmap block, that
\* went through.
C33_TwoBitmapBlocks ==
  /\ bm.op = "balloc_free_on_disk"
  /\ bm.halted = "none"
  /\ Len(bm.blocks) = 3
  /\ bm.blocks[1] > bm.blocks[2]
  /\ BBLOCK(bm.blocks[1]) = BBLOCK(bm.blocks[3])
  /\ Len(bm.logged) = 2

\* The blocks the itrunc on record added to the transaction as updated.
ItruncLogged == itrunc([fres.pre EXCEPT !.logged = {}], fres.off).logged

\* C34: itrunc adds an indirect, first-level or second-level block to the
\* transaction exactly if it changed the block and the block is not fully
\* released: it still holds a mapped entry and was not itself freed.
C34_ItruncLogging ==
  fres.op = "itrunc" =>
    ItruncLogged =
      {b \in PtrBlocks(fres.pre) :
         /\ fs.ptrs[b] # fres.pre.ptrs[b]
         /\ Times(NewlyFreed, b) = 0
         /\ \E i \in 0..(NINDIRECT - 1) : fs.ptrs[b][i] # 0}

\* An inode in destruction: onzero has latched it for good in table inos
\* with a thread th about to remove it, or it is handed to the collector.
Destructing(inos, th, o) ==
  \/ inos[o].st = "delayed"
  \/ inos[o].st = "live" /\ \E t \in Threads : th[t].pc = "onzero_remove" /\ th[t].this = o

\* How far an inode is in its life: unused, uninitialised, valid, in
\* destruction, reclaimed.
Stage(inos, th, o) ==
  IF inos[o].st = "unused" THEN 0
  ELSE IF inos[o].st = "freed" THEN 4
  ELSE IF Destructing(inos, th, o) THEN 3
  ELSE IF inos[o].valid THEN 2
  ELSE 1

\* C35: an inode only moves forward through uninitialised, valid, in
\* destruction, reclaimed; it enters destruction only with no reference left,
\* its latch free and valid set, and is then marked busy; it has left the hash
\* table when it is handed to the collector; and once in destruction no thread
\* gets a reference to it any more.
C35_LifecycleMonotone ==
  [][\A o \in Objs :
       /\ Stage(inodes', thr', o) >= Stage(inodes, thr, o)
       /\ (~Destructing(inodes, thr, o) /\ Destructing(inodes', thr', o)) =>
            /\ inodes[o].ref = 0
            /\ ~inodes[o].busy /\ inodes[o].readbusy = 0
            /\ inodes[o].valid
            /\ inodes'[o].busy
       /\ (inodes[o].st = "live" /\ inodes'[o].st = "delayed") =>
            ins'[inodes[o].inum] # o
       /\ Destructing(inodes, thr, o) =>
            \A t \in Threads : thr'[t].ip = o => thr[t].ip = o]_vars

\* C36: a read allocates no block: readi leaves the inode's addrs, the
\* indirect blocks and the in-memory bitmap as they were, whatever the block
\* map looks like below the size, and never runs out of blocks.
C36_ReadNeverAllocates ==
  fres.op = "readi" =>
    /\ fs.addrs = fres.pre.addrs
    /\ fs.ptrs = fres.pre.ptrs
    /\ fs.bitmap = fres.pre.bitmap
    /\ fs.allocated = fres.pre.allocated
    /\ fs.halted = "none"

\* C37: no thread holds a reference to an inode that has left the hash table
\* and is handed to the collector or deleted; iget returns either an inode
\* that is not in destruction or a fresh one.
C37_NoResurrection ==
  \A t \in Threads :
    (thr[t].pc = "idle" /\ thr[t].ip # NoObj) =>
      /\ inodes[thr[t].ip].st = "live"
      /\ ~Destructing(inodes, thr, thr[t].ip)

\* The names with a live entry in the directory's data.
OnDisk == {dp.ents[k].name : k \in {j \in DirSlots : j < dp.size /\ dp.ents[j].inum # 0}}

\* C38: when threads call dirlookup on a directory without an index, one
\* index is built, and no dirlookup of a name that has a live entry on disk
\* returns empty.
C38_LookupDuringInit ==
  di.op = "dirlookup" =>
    /\ di.built <= 1
    /\ \A t \in Threads :
         (di.th[t].pc = "done" /\ di.th[t].name \in OnDisk) => di.th[t].ret # 0

\* C39: when dirunlink removes an entry, the inode whose link count it lowers
\* is the inode the entry named in the index; it never removes an entry and
\* lowers the count of another inode.
C39_UnlinkRightInode ==
  (dres.op = "dirunlink" /\ dres.ret = 0) =>
    \A i \in DirInums \ {1} :
      dp.nlink[i] < dres.pre.nlink[i] => i = dir_init(dres.pre).dir[dres.name].inum_

\* C40: when every holder of the latch unlocks in the end and the threads are
\* scheduled fairly, each thread inside ilock, for read or for write, gets the
\* latch in the end.
C40_LatchLiveness ==
  \A t \in Threads : (thr[t].pc \in {"ilock", "ilock_sleep"}) ~> (thr[t].held # "none")

====
